---- MODULE Spec2Model ----
(***************************************************************************)
(* Model of the flyctl agent daemon (package agent, Server): the control   *)
(* socket's accept loop, the one-command-per-connection dispatcher, the    *)
(* tunnel registry guarded by Server.lock, and the connect relay.          *)
(*                                                                         *)
(* Every accepted connection runs Server.handle in its own goroutine.  A   *)
(* goroutine's position is pc[c]; the steps are cut at the calls that      *)
(* block (accept, lock acquisition, the directory, the tunnel provider,    *)
(* the dial, the byte pumps).  An unrecovered panic in any goroutine       *)
(* terminates the whole process (crashed).                                 *)
(***************************************************************************)
EXTENDS Integers, Sequences, FiniteSets, TLC

(* ------------------------------ bounds --------------------------------- *)

\* number of client connections ever attempted against the socket
NConns == 2

Conns == 1..NConns

\* number of bytes each side of a relay sends
MaxBytes == 1

\* number of processes that start a daemon at the socket path
NProcs == 4

Procs == 1..NProcs

\* number of bytes in the stream each side of a relay sends, where the
\* streams are followed byte by byte
StreamLen == 2

\* number of times Accept fails on the open listener
MaxAcceptErrs == 1

(* ------------------------- program constants --------------------------- *)

\* os.Getpid() of the daemon process, as printed by handlePing
DaemonPid == 4242

\* the keys of the cmds map built in Server.handle
cmds == {"kill", "ping", "connect", "establish"}

(* --------------------------- the environment --------------------------- *)

\* Lists the directory service may return from GetOrganizations (slugs, in
\* the order returned).  The same organization appears first, last, or not
\* at all.
DirLists == { <<"acme", "beta">>, <<"beta", "acme">>, <<"beta">> }

\* The text of an error returned by a collaborator or by the network stack.
CollabErr == "E"

\* Command lines a client may send, as runs of non-space text separated by
\* single space characters.
Lines ==
  { <<"ping">>,
    <<"kill">>,
    <<"establish", " ", "acme">>,
    <<"establish", " ", "beta">>,
    <<"establish", " ", "ghost">>,
    <<"establish">>,
    <<"connect", " ", "10.0.0.1:5432">>,
    <<"connect", " ", "10.0.0.1:5432", " ", "100">>,
    <<"connect", " ", "10.0.0.1:5432", " ", "abc">>,
    <<"connect", " ", "10.0.0.1:5432", " ", "-5">>,
    <<"connect">>,
    <<"bogus", " ", "foo">>,
    <<>> }

\* What a client does on its connection: send one line, or close without
\* sending anything (read returns io.EOF).
Inputs ==
  { [eof |-> FALSE, line |-> l] : l \in Lines } \cup { [eof |-> TRUE, line |-> <<>>] }

\* The organization whose private network a destination address belongs to.
Owner(addr) == "acme"

(* ------------------------- pure helper functions ----------------------- *)

RECURSIVE SplitFrom(_, _, _, _)
SplitFrom(line, i, cur, acc) ==
  IF i > Len(line) THEN Append(acc, cur)
  ELSE IF line[i] = " " THEN SplitFrom(line, i + 1, "", Append(acc, cur))
  ELSE SplitFrom(line, i + 1, cur \o line[i], acc)

\* strings.Split(string(buf), " "): one token more than there are spaces;
\* the empty line gives the single empty token.
Split(line) == SplitFrom(line, 1, "", <<>>)

RECURSIVE JoinFrom(_, _)
JoinFrom(args, i) ==
  IF i > Len(args) THEN ""
  ELSE IF i = Len(args) THEN args[i]
  ELSE args[i] \o " " \o JoinFrom(args, i + 1)

\* fmt's %v of a []string: the elements separated by spaces, in brackets.
FormatArgs(args) == "[" \o JoinFrom(args, 1) \o "]"

\* The characters of the tokens that can stand in the timeout position.
Chars(tok) ==
  CASE tok = "100" -> <<"1", "0", "0">>
    [] tok = "abc" -> <<"a", "b", "c">>
    [] tok = "-5" -> <<"-", "5">>
    [] OTHER -> <<>>

Digits == {"0", "1", "2", "3", "4", "5", "6", "7", "8", "9"}

\* strconv.ParseUint(s, 10, 32) succeeds on a non-empty run of decimal
\* digits (the values used here are far below 2^32).
ParseUintOk(tok) ==
  LET cs == Chars(tok) IN Len(cs) > 0 /\ \A i \in 1..Len(cs) : cs[i] \in Digits

DigitVal(ch) ==
  CASE ch = "0" -> 0 [] ch = "1" -> 1 [] ch = "2" -> 2 [] ch = "3" -> 3
    [] ch = "4" -> 4 [] ch = "5" -> 5 [] ch = "6" -> 6 [] ch = "7" -> 7
    [] ch = "8" -> 8 [] ch = "9" -> 9

RECURSIVE DecimalVal(_, _)
DecimalVal(cs, n) ==
  IF n = 0 THEN 0 ELSE 10 * DecimalVal(cs, n - 1) + DigitVal(cs[n])

\* The number strconv.ParseUint returns for a token it accepts.
ParseUintVal(tok) == DecimalVal(Chars(tok), Len(Chars(tok)))

\* The bytes the destination sends into a relay, and the bytes the client
\* sends after its command line.
\* Each relay has its own bytes: c is the control connection of the relay.
DestByte(c, k) == "d" \o ToString(c) \o "." \o ToString(k)

ClientByte(c, k) == "u" \o ToString(c) \o "." \o ToString(k)

DestBytes == { DestByte(c, k) : c \in Conns, k \in 1..(MaxBytes + 1) }

\* net.SplitHostPort on the addresses clients ask for.
SplitHostPort(addr) ==
  CASE addr = "10.0.0.1:5432" -> [host |-> "10.0.0.1", port |-> "5432", err |-> ""]
    [] addr = "db.internal:5432" -> [host |-> "db.internal", port |-> "5432", err |-> ""]
    [] OTHER -> [host |-> "", port |-> "", err |-> "missing port in address"]

\* net.ParseIP(host) # nil: the hosts that are IP literals.
ParseIP(host) == host \in {"10.0.0.1"}

\* What tunnel.Resolver().LookupHost may return for a host name: addresses
\* of the private network, or an error.
LookupAnswers ==
  { [err |-> "", addrs |-> <<"fdaa:0:1::3", "fdaa:0:1::4">>],
    [err |-> CollabErr, addrs |-> <<>>] }

\* resolve(tunnel, addr), given the answer of the tunnel's resolver: an IP
\* literal is returned in brackets with the port, a host name is replaced by
\* the first address the resolver returns.
resolve(answer, addr) ==
  LET hp == SplitHostPort(addr) IN
  IF hp.err # "" THEN [addr |-> "", err |-> hp.err]
  ELSE IF ParseIP(hp.host)
    THEN [addr |-> "[" \o hp.host \o "]:" \o hp.port, err |-> ""]
  ELSE IF answer.err # "" THEN [addr |-> "", err |-> answer.err]
  ELSE [addr |-> "[" \o answer.addrs[1] \o "]:" \o hp.port, err |-> ""]

\* The range loop without the comparison of o.Slug with args[1].
OrgAfterLoop_noMatchTest(orgs, slug) == orgs[Len(orgs)]

\* The value of org after the range loop of handleEstablish.  org = &o takes
\* the address of the loop variable, which is one variable for the whole
\* loop, and the loop does not stop at the match: when some element matches,
\* org ends up pointing at the value of the last element.  "" is the nil
\* pointer.
OrgAfterLoop(orgs, slug) ==
  IF \E i \in 1..Len(orgs) : orgs[i] = slug THEN orgs[Len(orgs)] ELSE ""

(* ------------------------------ the state ------------------------------ *)

VARIABLES
  listener,   \* Server.listener: "open" or "closed"
  servePC,    \* Server.Serve: "accept" or "returned"
  crashed,    \* the process was terminated by an unrecovered panic
  tunnels,    \* Server.tunnels: [nil |-> is the nil map, m |-> its entries]
  lock,       \* Server.lock: 0 when free, else the connection holding it
  pc,         \* per connection: where the client / its handler goroutine is
  input,      \* per connection: what the client sends
  reply,      \* per connection: the lines written to the control connection
  org,        \* per connection: the slug org points to in handleEstablish
  pumps,      \* per connection: the byte pumps of its relay still running
  sessions,   \* the sessions the tunnel provider has opened
  log,        \* per connection: what its handler has done, in order
  delivered,  \* per connection: the bytes written to the destination
  serveLog,   \* what Server.Serve has printed with log.Printf
  cliClosed,  \* per connection: the client has closed its end
  dstClosed   \* per connection: the destination has closed its end

\* The socket path and the processes that call NewServer on it.
VARIABLES
  path,       \* the filesystem entry at the socket path
  np,         \* per process: where it is in NewServer, Serve and handleKill
  killq,      \* per process: the kill requests sent to it and not yet handled
  nerr        \* per process: the error NewServer returned

\* Calls of Server.tunnelFor, one per calling goroutine.
VARIABLES
  tf          \* per caller: where it is in tunnelFor, its slug, its result

\* The other programs of the repository, each run on its own.
VARIABLES
  img,        \* one call of Resolver.Resolve
  svc,        \* one call of _patchService
  pg          \* one run of `postgres restart`

\* what the daemon's request handling never touches
toolVars == << tf, img, svc, pg >>

\* what only the actions of the network around the daemon change
envVars == << serveLog, cliClosed, dstClosed, toolVars >>

\* the fields of the Server and of its connections
serverVars == << listener, servePC, crashed, tunnels, lock, pc, input, reply,
                 org, pumps, sessions, log, delivered, serveLog, cliClosed,
                 dstClosed >>

daemonVars == << listener, servePC, crashed, tunnels, lock, pc, input, reply,
                 org, pumps, sessions, log, delivered, envVars >>

restartVars == << path, np, killq, nerr >>

vars == << daemonVars, restartVars >>

\* filesystem entries: nothing, a regular file, or a socket; `of` is the
\* process whose listener the socket belongs to, 0 for a socket left behind
\* by a process that is gone
NoEntry == [kind |-> "none", of |-> 0]

FileEntry == [kind |-> "file", of |-> 0]

SocketEntry(p) == [kind |-> "socket", of |-> p]

\* An error value: its text, and the sentinel error it wraps (%w), if any.
NilError == [msg |-> "", wraps |-> ""]

\* errors.Is(err, ErrCantBind)
IsErrCantBind(err) == err.wraps = "ErrCantBind"

RestartIdle ==
  /\ np = [p \in Procs |-> "idle"]
  /\ killq = [p \in Procs |-> 0]
  /\ nerr = [p \in Procs |-> NilError]

\* A map value, nil or not.  Reading a nil map finds nothing.
NilMap == [nil |-> TRUE, m |-> <<>>]

MapHas(t, k) == k \in DOMAIN t.m

MapPut(t, k, v) ==
  [t EXCEPT !.m = [x \in (DOMAIN t.m) \cup {k} |-> IF x = k THEN v ELSE t.m[x]]]

\* &Server{listener: l, cmdctx: ctx, client: ctx.Client.API()}: the tunnels
\* field is left at its zero value, the nil map.
NewServerTunnels == NilMap

\* goroutines that call Server.tunnelFor
NCallers == 2

Callers == 1..NCallers

\* no tunnelFor call is under way
TunnelForIdle ==
  tf = [k \in Callers |-> [pc |-> "idle", slug |-> "", res |-> <<>>]]

\* no Resolve call is under way
ResolveIdle == img = <<>>

\* no _patchService call is under way
PatchIdle == svc = <<>>

\* no `postgres restart` is under way
PgIdle == pg = <<>>

ToolsIdle ==
  /\ TunnelForIdle
  /\ ResolveIdle
  /\ PatchIdle
  /\ PgIdle

\* the Server as NewServer leaves it, no client connected
ServerInit ==
  /\ listener = "open"
  /\ servePC = "accept"
  /\ crashed = FALSE
  /\ tunnels = NewServerTunnels
  /\ lock = 0
  /\ pc = [c \in Conns |-> "idle"]
  /\ input = [c \in Conns |-> [eof |-> TRUE, line |-> <<>>]]
  /\ reply = [c \in Conns |-> <<>>]
  /\ org = [c \in Conns |-> ""]
  /\ pumps = [c \in Conns |-> {}]
  /\ sessions = {}
  /\ log = [c \in Conns |-> <<>>]
  /\ delivered = [c \in Conns |-> <<>>]
  /\ serveLog = <<>>
  /\ cliClosed = [c \in Conns |-> FALSE]
  /\ dstClosed = [c \in Conns |-> FALSE]

DaemonInit ==
  /\ ToolsIdle
  /\ ServerInit

\* The daemon of this specification is up; no NewServer call is under way.
Init ==
  /\ DaemonInit
  /\ path = NoEntry
  /\ RestartIdle


(* ------------------------- writing to a connection --------------------- *)

NoErr == ""

Args(c) == Split(input[c].line)

\* writef(c, format, ...): one line written to the control connection.
writef(r, msg) == Append(r, msg)

\* Server.errLog: the line written is "err " followed by the message.
errLog(r, msg) == writef(r, "err " \o msg)

\* The end of Server.handle after the handler returned err: a non-nil error
\* is reported through errLog as "err handling <command>: <error>".
handleReturn(r, args, err) ==
  IF err # NoErr THEN errLog(r, "err handling " \o args[1] \o ": " \o err) ELSE r

\* A handler that wrote the lines `wrote` returns err; handle reports the
\* error, if any, and its deferred c.Close() closes the control connection.
Done(c, wrote, err, evs) ==
  /\ reply' = [reply EXCEPT ![c] = handleReturn(@ \o wrote, Args(c), err)]
  /\ pc' = [pc EXCEPT ![c] = "done"]
  /\ log' = [log EXCEPT ![c] = @ \o evs \o <<"close">>]

(* ------------------------------ the clients ---------------------------- *)

\* A client connects to the socket path and sends its input.  The connection
\* is refused unless a live process is listening; otherwise it waits in the
\* listener's backlog.  Connections are numbered in the order of the attempts.
ClientDial(c, in) ==
  /\ pc[c] = "idle"
  /\ \A d \in Conns : d < c => pc[d] # "idle"
  /\ input' = [input EXCEPT ![c] = in]
  /\ pc' = [pc EXCEPT ![c] =
              IF listener = "open" /\ ~crashed THEN "backlog" ELSE "refused"]
  /\ UNCHANGED << listener, servePC, crashed, tunnels, lock, reply, org,
                  pumps, sessions, log >>
  /\ UNCHANGED << delivered, envVars, restartVars >>

(* ------------------------------ Server.Serve --------------------------- *)

\* Serve calling s.handle(conn) itself instead of starting a goroutine: the
\* next Accept waits for the handler to return.
Accept_sync(c) ==
  /\ ~crashed
  /\ servePC = "accept"
  /\ listener = "open"
  /\ pc[c] = "backlog"
  /\ \A d \in Conns : pc[d] \in {"idle", "backlog", "refused", "done", "panicked"}
  /\ pc' = [pc EXCEPT ![c] = "read"]
  /\ UNCHANGED << listener, servePC, crashed, tunnels, lock, input, reply,
                  org, pumps, sessions, log >>
  /\ UNCHANGED << delivered, envVars, restartVars >>

\* s.listener.Accept() returns a connection; go s.handle(conn).
Accept(c) ==
  /\ ~crashed
  /\ servePC = "accept"
  /\ listener = "open"
  /\ pc[c] = "backlog"
  /\ pc' = [pc EXCEPT ![c] = "read"]
  /\ UNCHANGED << listener, servePC, crashed, tunnels, lock, input, reply,
                  org, pumps, sessions, log >>
  /\ UNCHANGED << delivered, envVars, restartVars >>

\* Accept fails with "use of closed network connection": Serve returns, and
\* its deferred s.listener.Close() finds the listener already closed.
ServeReturn ==
  /\ ~crashed
  /\ servePC = "accept"
  /\ listener = "closed"
  /\ servePC' = "returned"
  /\ UNCHANGED << listener, crashed, tunnels, lock, pc, input, reply, org,
                  pumps, sessions, log >>
  /\ UNCHANGED << delivered, envVars, restartVars >>

\* The line Serve prints for an accept error it does not take for the
\* closing of the listener.
AcceptWarning == "warning: couldn't accept connection: " \o CollabErr

\* Serve returning on every accept error; its deferred s.listener.Close()
\* then closes the listener.
AcceptFails_return ==
  /\ ~crashed
  /\ servePC = "accept"
  /\ listener = "open"
  /\ Len(serveLog) < MaxAcceptErrs
  /\ servePC' = "returned"
  /\ listener' = "closed"
  /\ UNCHANGED << crashed, tunnels, lock, pc, input, reply, org, pumps,
                  sessions, log, delivered, serveLog, cliClosed, dstClosed,
                  toolVars,
                  restartVars >>

\* s.listener.Accept() fails while the listener is open (the process is out
\* of file descriptors, the connection was aborted): the error text does not
\* contain "use of closed network connection", so Serve prints the warning
\* and continues with the next Accept.
AcceptFails ==
  /\ ~crashed
  /\ servePC = "accept"
  /\ listener = "open"
  /\ Len(serveLog) < MaxAcceptErrs
  /\ serveLog' = Append(serveLog, AcceptWarning)
  /\ UNCHANGED << listener, servePC, crashed, tunnels, lock, pc, input, reply,
                  org, pumps, sessions, log, delivered, cliClosed, dstClosed,
                  toolVars,
                  restartVars >>

(* ------------------------------ the handlers --------------------------- *)

\* handleKill without the s.listener.Close() call.
handleKill_noClose(c, args) ==
  /\ Done(c, <<>>, NoErr, <<"kill">>)
  /\ UNCHANGED << listener, servePC, crashed, tunnels, lock, input, org,
                  pumps, sessions >>

\* handleKill returning the error of s.listener.Close(), which is not nil
\* when the listener is closed already.
handleKill_returnCloseErr(c, args) ==
  /\ listener' = "closed"
  /\ Done(c, <<>>,
          IF listener = "closed" THEN "close unix: use of closed network connection"
                                 ELSE NoErr,
          <<"kill">>)
  /\ UNCHANGED << servePC, crashed, tunnels, lock, input, org, pumps, sessions >>

\* handleKill: s.listener.Close(); return nil.  Nothing is written.
handleKill(c, args) ==
  /\ listener' = "closed"
  /\ Done(c, <<>>, NoErr, <<"kill">>)
  /\ UNCHANGED << servePC, crashed, tunnels, lock, input, org, pumps, sessions >>

\* "ping" bound to handleKill in the cmds map.
handlePing_asKill(c, args) ==
  /\ listener' = "closed"
  /\ Done(c, <<>>, NoErr, <<"kill">>)
  /\ UNCHANGED << servePC, crashed, tunnels, lock, input, org, pumps, sessions >>

\* handle going back to read the next command of the connection after the
\* handler returned.
handlePing_keepOpen(c, args) ==
  /\ reply' = [reply EXCEPT ![c] = writef(@, "pong " \o ToString(DaemonPid))]
  /\ log' = [log EXCEPT ![c] = @ \o <<"ping">>]
  /\ UNCHANGED << listener, servePC, crashed, tunnels, lock, pc, input, org,
                  pumps, sessions >>

\* handlePing: writef(c, "pong %d", os.Getpid()).
handlePing(c, args) ==
  /\ Done(c, <<"pong " \o ToString(DaemonPid)>>, NoErr, <<"ping">>)
  /\ UNCHANGED << listener, servePC, crashed, tunnels, lock, input, org,
                  pumps, sessions >>

\* The text of the error strconv.ParseUint returns for a bad token.
ParseUintErr(tok) == "strconv.ParseUint: parsing \"" \o tok \o "\": invalid syntax"

\* handleConnect going on to the dial, without a timeout, when ParseUint
\* fails.
handleConnect_ignoreParseErr(c, args) ==
  /\ IF Len(args) < 2 \/ Len(args) > 3
       THEN Done(c, <<>>, "malformed connect command: " \o FormatArgs(args), <<>>)
     ELSE /\ pc' = [pc EXCEPT ![c] = "dial"]
          /\ log' = [log EXCEPT ![c] = @ \o
               << IF Len(args) > 2 /\ ParseUintOk(args[3])
                    THEN "d.Timeout = " \o ToString(ParseUintVal(args[3])) \o "ms"
                    ELSE "d.Timeout = 0" >>]
          /\ UNCHANGED reply
  /\ UNCHANGED << listener, servePC, crashed, tunnels, lock, input, org,
                  pumps, sessions >>

\* handleConnect up to the dial: the argument count and the timeout are
\* checked; a good request goes on to d.Dial("tcp", args[1]).
handleConnect(c, args) ==
  /\ IF Len(args) < 2 \/ Len(args) > 3
       THEN Done(c, <<>>, "malformed connect command: " \o FormatArgs(args), <<>>)
     ELSE IF Len(args) > 2 /\ ~ParseUintOk(args[3])
       THEN Done(c, <<>>, "invalid timeout: " \o ParseUintErr(args[3]), <<>>)
     ELSE /\ pc' = [pc EXCEPT ![c] = "dial"]
          /\ log' = [log EXCEPT ![c] = @ \o
               << IF Len(args) > 2
                    THEN "d.Timeout = " \o ToString(ParseUintVal(args[3])) \o "ms"
                    ELSE "d.Timeout = 0" >>]
          /\ UNCHANGED reply
  /\ UNCHANGED << listener, servePC, crashed, tunnels, lock, input, org,
                  pumps, sessions >>

\* handleEstablish starts with s.lock.Lock(), where the goroutine may block.
handleEstablish(c, args) ==
  /\ pc' = [pc EXCEPT ![c] = "est_lock"]
  /\ UNCHANGED << listener, servePC, crashed, tunnels, lock, input, reply,
                  org, pumps, sessions, log >>

\* The unknown-command branch ending the process (log.Fatalf in place of
\* log.Printf inside errLog).
badCommand_fatal(c, args) ==
  /\ reply' = [reply EXCEPT ![c] = errLog(@, "bad command: " \o FormatArgs(args))]
  /\ pc' = [pc EXCEPT ![c] = "done"]
  /\ log' = [log EXCEPT ![c] = @ \o <<"close">>]
  /\ crashed' = TRUE
  /\ UNCHANGED << listener, servePC, tunnels, lock, input, org, pumps,
                  sessions >>

\* The branch of Server.handle for a first token that is not in cmds.
badCommand(c, args) ==
  /\ reply' = [reply EXCEPT ![c] = errLog(@, "bad command: " \o FormatArgs(args))]
  /\ pc' = [pc EXCEPT ![c] = "done"]
  /\ log' = [log EXCEPT ![c] = @ \o <<"close">>]
  /\ UNCHANGED << listener, servePC, crashed, tunnels, lock, input, org,
                  pumps, sessions >>

\* Server.handle: read the command, split it, look the handler up, run it.
handle(c) ==
  /\ ~crashed
  /\ pc[c] = "read"
  /\ IF input[c].eof
       THEN /\ pc' = [pc EXCEPT ![c] = "done"]
            /\ log' = [log EXCEPT ![c] = @ \o <<"close">>]
            /\ UNCHANGED << listener, servePC, crashed, tunnels, lock, input,
                            reply, org, pumps, sessions >>
       ELSE LET args == Split(input[c].line) IN
            IF args[1] \notin cmds THEN badCommand(c, args)
            ELSE CASE args[1] = "kill" -> handleKill(c, args)
                   [] args[1] = "ping" -> handlePing(c, args)
                   [] args[1] = "connect" -> handleConnect(c, args)
                   [] args[1] = "establish" -> handleEstablish(c, args)
  /\ UNCHANGED << delivered, envVars, restartVars >>

(* ------------------- handleEstablish, under Server.lock ---------------- *)

\* handleEstablish going on without waiting for the lock to be free.
EstablishLock_noWait(c) ==
  /\ ~crashed
  /\ pc[c] = "est_lock"
  /\ IF Len(Args(c)) # 2
       THEN /\ Done(c, <<>>, "malformed establish command",
                    <<"lock", "malformed", "unlock">>)
            /\ UNCHANGED lock
       ELSE /\ lock' = c
            /\ pc' = [pc EXCEPT ![c] = "est_orgs"]
            /\ log' = [log EXCEPT ![c] = @ \o <<"lock">>]
            /\ UNCHANGED reply
  /\ UNCHANGED << listener, servePC, crashed, tunnels, input, org, pumps,
                  sessions >>
  /\ UNCHANGED << delivered, envVars, restartVars >>

\* handleEstablish without the test of len(args).
EstablishLock_noCount(c) ==
  /\ ~crashed
  /\ pc[c] = "est_lock"
  /\ lock = 0
  /\ lock' = c
  /\ pc' = [pc EXCEPT ![c] = "est_orgs"]
  /\ log' = [log EXCEPT ![c] = @ \o <<"lock">>]
  /\ UNCHANGED << listener, servePC, crashed, tunnels, input, reply, org,
                  pumps, sessions >>
  /\ UNCHANGED << delivered, envVars, restartVars >>

\* s.lock.Lock() returns; a command that does not have exactly two tokens
\* is rejected (the deferred Unlock releases the lock again).
EstablishLock(c) ==
  /\ ~crashed
  /\ pc[c] = "est_lock"
  /\ lock = 0
  /\ IF Len(Args(c)) # 2
       THEN /\ Done(c, <<>>, "malformed establish command",
                    <<"lock", "malformed", "unlock">>)
            /\ UNCHANGED lock
       ELSE /\ lock' = c
            /\ pc' = [pc EXCEPT ![c] = "est_orgs"]
            /\ log' = [log EXCEPT ![c] = @ \o <<"lock">>]
            /\ UNCHANGED reply
  /\ UNCHANGED << listener, servePC, crashed, tunnels, input, org, pumps,
                  sessions >>
  /\ UNCHANGED << delivered, envVars, restartVars >>

\* handleEstablish looking args[1] up in s.tunnels before it calls the
\* directory.
GetOrganizations_checkFirst(c) ==
  /\ ~crashed
  /\ pc[c] = "est_orgs"
  /\ IF MapHas(tunnels, Args(c)[2])
       THEN /\ Done(c, <<"ok">>, NoErr, <<"check", "unlock">>)
            /\ lock' = 0
            /\ UNCHANGED org
       ELSE \/ /\ Done(c, <<>>, "can't load organizations from config: " \o CollabErr,
                       <<"check", "dir_err", "unlock">>)
               /\ lock' = 0
               /\ UNCHANGED org
            \/ \E orgs \in DirLists :
                 LET o == OrgAfterLoop(orgs, Args(c)[2]) IN
                 IF o = ""
                   THEN /\ Done(c, <<>>, "no such organization",
                                <<"check", "dir", "no_org", "unlock">>)
                        /\ lock' = 0
                        /\ UNCHANGED org
                   ELSE /\ org' = [org EXCEPT ![c] = o]
                        /\ pc' = [pc EXCEPT ![c] = "est_state"]
                        /\ log' = [log EXCEPT ![c] = @ \o <<"check", "dir">>]
                        /\ UNCHANGED << lock, reply >>
  /\ UNCHANGED << listener, servePC, crashed, tunnels, input, pumps, sessions >>
  /\ UNCHANGED << delivered, envVars, restartVars >>

\* s.client.GetOrganizations() returns, then the range loop and the lookup
\* of org.Slug in s.tunnels.
GetOrganizations(c) ==
  /\ ~crashed
  /\ pc[c] = "est_orgs"
  /\ \/ /\ Done(c, <<>>, "can't load organizations from config: " \o CollabErr,
                <<"dir_err", "unlock">>)
        /\ lock' = 0
        /\ UNCHANGED org
     \/ \E orgs \in DirLists :
          LET o == OrgAfterLoop(orgs, Args(c)[2]) IN
          IF o = ""
            THEN /\ Done(c, <<>>, "no such organization",
                         <<"dir", "no_org", "unlock">>)
                 /\ lock' = 0
                 /\ UNCHANGED org
          ELSE IF MapHas(tunnels, o)
            THEN /\ Done(c, <<"ok">>, NoErr, <<"dir", "check", "unlock">>)
                 /\ lock' = 0
                 /\ UNCHANGED org
          ELSE /\ org' = [org EXCEPT ![c] = o]
               /\ pc' = [pc EXCEPT ![c] = "est_state"]
               /\ log' = [log EXCEPT ![c] = @ \o <<"dir", "check">>]
               /\ UNCHANGED << lock, reply >>
  /\ UNCHANGED << listener, servePC, crashed, tunnels, input, pumps, sessions >>
  /\ UNCHANGED << delivered, envVars, restartVars >>

\* wireguard.StateForOrg(s.client, org, "", "") returns.
StateForOrg(c) ==
  /\ ~crashed
  /\ pc[c] = "est_state"
  /\ \/ /\ Done(c, <<>>, "can't get wireguard state for " \o org[c] \o ": " \o CollabErr,
                <<"state_err", "unlock">>)
        /\ lock' = 0
     \/ /\ pc' = [pc EXCEPT ![c] = "est_connect"]
        /\ log' = [log EXCEPT ![c] = @ \o <<"state">>]
        /\ UNCHANGED << lock, reply >>
  /\ UNCHANGED << listener, servePC, crashed, tunnels, input, org, pumps,
                  sessions >>
  /\ UNCHANGED << delivered, envVars, restartVars >>

\* handleEstablish storing the tunnel before it looks at wg.Connect's error.
wgConnect_insertFirst(c) ==
  /\ ~crashed
  /\ pc[c] = "est_connect"
  /\ \E failed \in BOOLEAN :
       LET tunnel == [by |-> c, cfg |-> org[c]] IN
       /\ sessions' = IF failed THEN sessions ELSE sessions \cup {tunnel}
       /\ lock' = 0
       /\ IF tunnels.nil
            THEN /\ crashed' = TRUE
                 /\ pc' = [pc EXCEPT ![c] = "panicked"]
                 /\ log' = [log EXCEPT ![c] = @ \o
                      <<IF failed THEN "open_err" ELSE "open", "panic", "unlock", "close">>]
                 /\ UNCHANGED << tunnels, reply >>
            ELSE /\ tunnels' = MapPut(tunnels, org[c], tunnel)
                 /\ UNCHANGED crashed
                 /\ IF failed
                      THEN Done(c, <<>>, "can't connect wireguard: " \o CollabErr,
                                <<"insert", "open_err", "unlock">>)
                      ELSE Done(c, <<"ok">>, NoErr, <<"open", "insert", "unlock">>)
  /\ UNCHANGED << listener, servePC, input, org, pumps >>
  /\ UNCHANGED << delivered, envVars, restartVars >>

\* wg.Connect(*state.TunnelConfig()) returns, then s.tunnels[org.Slug] =
\* tunnel.  The assignment to an entry of the nil map panics: the deferred
\* Unlock and Close run, nothing is written, and the process terminates.
wgConnect(c) ==
  /\ ~crashed
  /\ pc[c] = "est_connect"
  /\ \/ /\ Done(c, <<>>, "can't connect wireguard: " \o CollabErr,
                <<"open_err", "unlock">>)
        /\ lock' = 0
        /\ UNCHANGED << crashed, tunnels, sessions >>
     \/ LET tunnel == [by |-> c, cfg |-> org[c]] IN
        /\ sessions' = sessions \cup {tunnel}
        /\ lock' = 0
        /\ IF tunnels.nil
             THEN /\ crashed' = TRUE
                  /\ pc' = [pc EXCEPT ![c] = "panicked"]
                  /\ log' = [log EXCEPT ![c] = @ \o <<"open", "panic", "unlock", "close">>]
                  /\ UNCHANGED << tunnels, reply >>
             ELSE /\ tunnels' = MapPut(tunnels, org[c], tunnel)
                  /\ Done(c, <<"ok">>, NoErr, <<"open", "insert", "unlock">>)
                  /\ UNCHANGED crashed
  /\ UNCHANGED << listener, servePC, input, org, pumps >>
  /\ UNCHANGED << delivered, envVars, restartVars >>

(* ---------------------- handleConnect, from the dial ------------------- *)

\* handleConnect writing "ok" before it looks at the dial's error.
Dial_okBeforeCheck(c) ==
  /\ ~crashed
  /\ pc[c] = "dial"
  /\ \/ /\ Done(c, <<"ok">>, "connection failed: " \o CollabErr, <<"dial", "tcp " \o Args(c)[2], "dial_err">>)
        /\ UNCHANGED pumps
     \/ /\ reply' = [reply EXCEPT ![c] = writef(@, "ok")]
        /\ pumps' = [pumps EXCEPT ![c] = {"up", "down"}]
        /\ pc' = [pc EXCEPT ![c] = "relay"]
        /\ log' = [log EXCEPT ![c] = @ \o <<"dial", "tcp " \o Args(c)[2], "ok", "pump", "pump">>]
  /\ UNCHANGED << listener, servePC, crashed, tunnels, lock, input, org,
                  sessions >>
  /\ UNCHANGED << delivered, envVars, restartVars >>

\* handleConnect starting the copy goroutines without writing "ok".
Dial_noOk(c) ==
  /\ ~crashed
  /\ pc[c] = "dial"
  /\ \/ /\ Done(c, <<>>, "connection failed: " \o CollabErr, <<"dial", "tcp " \o Args(c)[2], "dial_err">>)
        /\ UNCHANGED pumps
     \/ /\ pumps' = [pumps EXCEPT ![c] = {"up", "down"}]
        /\ pc' = [pc EXCEPT ![c] = "relay"]
        /\ log' = [log EXCEPT ![c] = @ \o <<"dial", "tcp " \o Args(c)[2], "pump", "pump">>]
        /\ UNCHANGED reply
  /\ UNCHANGED << listener, servePC, crashed, tunnels, lock, input, org,
                  sessions >>
  /\ UNCHANGED << delivered, envVars, restartVars >>

\* handleConnect taking Server.lock (through tunnelFor) before it dials.
Dial_afterLock(c) ==
  /\ ~crashed
  /\ pc[c] = "dial"
  /\ lock = 0
  /\ \/ /\ Done(c, <<>>, "connection failed: " \o CollabErr, <<"dial", "tcp " \o Args(c)[2], "dial_err">>)
        /\ UNCHANGED pumps
     \/ /\ reply' = [reply EXCEPT ![c] = writef(@, "ok")]
        /\ pumps' = [pumps EXCEPT ![c] = {"up", "down"}]
        /\ pc' = [pc EXCEPT ![c] = "relay"]
        /\ log' = [log EXCEPT ![c] = @ \o <<"dial", "tcp " \o Args(c)[2], "ok", "pump", "pump">>]
  /\ UNCHANGED << listener, servePC, crashed, tunnels, lock, input, org,
                  sessions >>
  /\ UNCHANGED << delivered, envVars, restartVars >>

\* d.Dial("tcp", args[1]) returns.  On an error the handler returns it; else
\* "ok" is written and the two copy goroutines are started.
Dial(c) ==
  /\ ~crashed
  /\ pc[c] = "dial"
  /\ \/ /\ Done(c, <<>>, "connection failed: " \o CollabErr, <<"dial", "tcp " \o Args(c)[2], "dial_err">>)
        /\ UNCHANGED pumps
     \/ /\ reply' = [reply EXCEPT ![c] = writef(@, "ok")]
        /\ pumps' = [pumps EXCEPT ![c] = {"up", "down"}]
        /\ pc' = [pc EXCEPT ![c] = "relay"]
        /\ log' = [log EXCEPT ![c] = @ \o <<"dial", "tcp " \o Args(c)[2], "ok", "pump", "pump">>]
  /\ UNCHANGED << listener, servePC, crashed, tunnels, lock, input, org,
                  sessions >>
  /\ UNCHANGED << delivered, envVars, restartVars >>

\* One round of the io.Copy inside Server.copy: the next byte read from the
\* source is written to the other connection.
ioCopy(c, d) ==
  /\ ~crashed
  /\ pc[c] = "relay"
  /\ d \in pumps[c]
  /\ IF d = "down"
       THEN LET k == Cardinality({ i \in 1..Len(reply[c]) : reply[c][i] \in DestBytes }) IN
            /\ k < MaxBytes
            /\ reply' = [reply EXCEPT ![c] = Append(@, DestByte(c, k + 1))]
            /\ UNCHANGED delivered
       ELSE LET k == Len(delivered[c]) IN
            /\ k < MaxBytes
            /\ delivered' = [delivered EXCEPT ![c] = Append(@, ClientByte(c, k + 1))]
            /\ UNCHANGED reply
  /\ UNCHANGED << listener, servePC, crashed, tunnels, lock, pc, input, org,
                  pumps, sessions, log, envVars, restartVars >>

\* Server.copy: io.Copy returns (end of stream or error), wg.Done().
copy(c, d) ==
  /\ ~crashed
  /\ pc[c] = "relay"
  /\ d \in pumps[c]
  /\ pumps' = [pumps EXCEPT ![c] = @ \ {d}]
  /\ log' = [log EXCEPT ![c] = @ \o <<"copied">>]
  /\ UNCHANGED << listener, servePC, crashed, tunnels, lock, pc, input, reply,
                  org, sessions >>
  /\ UNCHANGED << delivered, envVars, restartVars >>

\* handleConnect returning without wg.Wait().
Wait_noWait(c) ==
  /\ ~crashed
  /\ pc[c] = "relay"
  /\ Done(c, <<>>, NoErr, <<"outclose">>)
  /\ UNCHANGED << listener, servePC, crashed, tunnels, lock, input, org,
                  pumps, sessions >>
  /\ UNCHANGED << delivered, envVars, restartVars >>

\* wg.Wait() returns; handleConnect returns nil, closing outconn, and handle
\* closes the control connection.
Wait(c) ==
  /\ ~crashed
  /\ pc[c] = "relay"
  /\ pumps[c] = {}
  /\ Done(c, <<>>, NoErr, <<"outclose">>)
  /\ UNCHANGED << listener, servePC, crashed, tunnels, lock, input, org,
                  pumps, sessions >>
  /\ UNCHANGED << delivered, envVars, restartVars >>

(* ------------------- the relay, stream by stream ----------------------- *)

\* The requests of clients that only connect: to an IP literal, and to a
\* host name of the private network.
ConnectInputs ==
  { [eof |-> FALSE, line |-> <<"connect", " ", "10.0.0.1:5432">>],
    [eof |-> FALSE, line |-> <<"connect", " ", "db.internal:5432">>] }

\* The request of the clients whose relays are followed byte by byte.
RelayInputs == { [eof |-> FALSE, line |-> <<"connect", " ", "10.0.0.1:5432">>] }

\* What the client writes to the control connection after its command line,
\* and what the destination writes to the dialed connection.
ClientStream(c) == [k \in 1..StreamLen |-> ClientByte(c, k)]

DestStream(c) == [k \in 1..StreamLen |-> DestByte(c, k)]

\* the bytes of the destination's stream written to the control connection
FromDest(c) == SelectSeq(reply[c], LAMBDA b : \E k \in 1..StreamLen : b = DestByte(c, k))

\* The client closes its end of the control connection during the relay.
ClientClose(c) ==
  /\ ~crashed
  /\ pc[c] = "relay"
  /\ ~cliClosed[c]
  /\ cliClosed' = [cliClosed EXCEPT ![c] = TRUE]
  /\ UNCHANGED << listener, servePC, crashed, tunnels, lock, pc, input, reply,
                  org, pumps, sessions, log, delivered, serveLog, dstClosed,
                  toolVars,
                  restartVars >>

\* The destination closes its end of the dialed connection.
DestClose(c) ==
  /\ ~crashed
  /\ pc[c] = "relay"
  /\ ~dstClosed[c]
  /\ dstClosed' = [dstClosed EXCEPT ![c] = TRUE]
  /\ UNCHANGED << listener, servePC, crashed, tunnels, lock, pc, input, reply,
                  org, pumps, sessions, log, delivered, serveLog, cliClosed,
                  toolVars,
                  restartVars >>

\* Server.copy writing to the connections of the first relay, whatever relay
\* it was started for (dst kept in a field of the Server).
copyRound_sharedDst(c, d) ==
  /\ ~crashed
  /\ pc[c] = "relay"
  /\ d \in pumps[c]
  /\ LET f == CHOOSE x \in Conns : pc[x] = "relay" /\ \A y \in Conns : pc[y] = "relay" => x <= y IN
     IF d = "up"
       THEN /\ Len(delivered[c]) < StreamLen
            /\ Len(delivered[f]) < StreamLen
            /\ delivered' = [delivered EXCEPT ![f] = Append(@, ClientStream(c)[Len(delivered[c]) + 1])]
            /\ UNCHANGED << reply, pumps, log >>
       ELSE /\ Len(FromDest(c)) < StreamLen
            /\ reply' = [reply EXCEPT ![c] = Append(@, DestStream(c)[Len(FromDest(c)) + 1])]
            /\ UNCHANGED << delivered, pumps, log >>
  /\ UNCHANGED << listener, servePC, crashed, tunnels, lock, pc, input, org,
                  sessions, envVars, restartVars >>

\* One round of the io.Copy loop inside Server.copy: src.Read returns the
\* next byte of the stream and dst.Write writes it.  The write fails when
\* the other end of dst is closed, and then io.Copy returns and the deferred
\* wg.Done() runs.
copyRound(c, d) ==
  /\ ~crashed
  /\ pc[c] = "relay"
  /\ d \in pumps[c]
  /\ IF d = "up"
       THEN /\ Len(delivered[c]) < StreamLen
            /\ IF dstClosed[c]
                 THEN /\ pumps' = [pumps EXCEPT ![c] = @ \ {d}]
                      /\ log' = [log EXCEPT ![c] = @ \o <<"copied">>]
                      /\ UNCHANGED delivered
                 ELSE /\ delivered' = [delivered EXCEPT ![c] =
                           Append(@, ClientStream(c)[Len(delivered[c]) + 1])]
                      /\ UNCHANGED << pumps, log >>
            /\ UNCHANGED reply
       ELSE /\ Len(FromDest(c)) < StreamLen
            /\ IF cliClosed[c]
                 THEN /\ pumps' = [pumps EXCEPT ![c] = @ \ {d}]
                      /\ log' = [log EXCEPT ![c] = @ \o <<"copied">>]
                      /\ UNCHANGED reply
                 ELSE /\ reply' = [reply EXCEPT ![c] =
                           Append(@, DestStream(c)[Len(FromDest(c)) + 1])]
                      /\ UNCHANGED << pumps, log >>
            /\ UNCHANGED delivered
  /\ UNCHANGED << listener, servePC, crashed, tunnels, lock, pc, input, org,
                  sessions, envVars, restartVars >>

\* src.Read returns io.EOF, the other end of src being closed and its stream
\* read to the end: io.Copy returns and the deferred wg.Done() runs.  A
\* Read on a source that is open and has nothing to read does not return.
copyReturn(c, d) ==
  /\ ~crashed
  /\ pc[c] = "relay"
  /\ d \in pumps[c]
  /\ IF d = "up"
       THEN cliClosed[c] /\ Len(delivered[c]) = StreamLen
       ELSE dstClosed[c] /\ Len(FromDest(c)) = StreamLen
  /\ pumps' = [pumps EXCEPT ![c] = @ \ {d}]
  /\ log' = [log EXCEPT ![c] = @ \o <<"copied">>]
  /\ UNCHANGED << listener, servePC, crashed, tunnels, lock, pc, input, reply,
                  org, sessions >>
  /\ UNCHANGED << delivered, envVars, restartVars >>

(* --------------------------- the specification ------------------------- *)

Next ==
  \/ \E c \in Conns, in \in Inputs : ClientDial(c, in)
  \/ \E c \in Conns : Accept(c)
  \/ ServeReturn
  \/ \E c \in Conns : handle(c)
  \/ \E c \in Conns : EstablishLock(c)
  \/ \E c \in Conns : GetOrganizations(c)
  \/ \E c \in Conns : StateForOrg(c)
  \/ \E c \in Conns : wgConnect(c)
  \/ \E c \in Conns : Dial(c)
  \/ \E c \in Conns, d \in {"up", "down"} : ioCopy(c, d)
  \/ \E c \in Conns, d \in {"up", "down"} : copy(c, d)
  \/ \E c \in Conns : Wait(c)

\* Serve's goroutine blocks in Accept and is woken when the listener is
\* closed, so its return cannot be postponed for ever.
Spec == Init /\ [][Next]_vars

FairSpec == Spec /\ WF_vars(ServeReturn)

\* Every collaborator call of handleEstablish returns, and a goroutine that
\* waits in s.lock.Lock() gets the lock when it stays free.
EstablishFairSpec ==
  /\ Spec
  /\ \A c \in Conns :
       /\ WF_vars(EstablishLock(c))
       /\ WF_vars(GetOrganizations(c))
       /\ WF_vars(StateForOrg(c))
       /\ WF_vars(wgConnect(c))

\* The daemon serving clients that connect, by address or by name.
ConnectNext ==
  \/ \E c \in Conns, in \in ConnectInputs : ClientDial(c, in)
  \/ \E c \in Conns : Accept(c)
  \/ \E c \in Conns : handle(c)
  \/ \E c \in Conns : Dial(c)
  \/ \E c \in Conns, d \in {"up", "down"} : ioCopy(c, d)
  \/ \E c \in Conns, d \in {"up", "down"} : copy(c, d)
  \/ \E c \in Conns : Wait(c)

ConnectSpec == Init /\ [][ConnectNext]_vars

\* The daemon serving clients that connect, with the two streams of every
\* relay followed byte by byte and the closing of either end made explicit.
RelayNext ==
  \/ \E c \in Conns, in \in RelayInputs : ClientDial(c, in)
  \/ \E c \in Conns : Accept(c)
  \/ \E c \in Conns : handle(c)
  \/ \E c \in Conns : Dial(c)
  \/ \E c \in Conns : ClientClose(c)
  \/ \E c \in Conns : DestClose(c)
  \/ \E c \in Conns, d \in {"up", "down"} : copyRound(c, d)
  \/ \E c \in Conns, d \in {"up", "down"} : copyReturn(c, d)
  \/ \E c \in Conns : Wait(c)

RelaySpec == Init /\ [][RelayNext]_vars

\* The goroutines of the daemon are scheduled: a pump that can go on does,
\* and so does a handler whose wg.Wait() can return.
RelayFairSpec ==
  /\ RelaySpec
  /\ \A c \in Conns :
       /\ WF_vars(Wait(c))
       /\ \A d \in {"up", "down"} : WF_vars(copyRound(c, d)) /\ WF_vars(copyReturn(c, d))

\* The requests of clients that send commands with too few or too many
\* tokens, and of a client that pings.
MalformedInputs ==
  { [eof |-> FALSE, line |-> <<"establish">>],
    [eof |-> FALSE, line |-> <<"establish", " ", "acme", " ", "beta">>],
    [eof |-> FALSE, line |-> <<"connect">>],
    [eof |-> FALSE, line |-> <<"connect", " ", "10.0.0.1:5432", " ", "100", " ", "7">>],
    [eof |-> FALSE, line |-> <<"ping">>] }

\* The daemon serving those clients.
ProtocolNext ==
  \/ \E c \in Conns, in \in MalformedInputs : ClientDial(c, in)
  \/ \E c \in Conns : Accept(c)
  \/ \E c \in Conns : handle(c)
  \/ \E c \in Conns : EstablishLock(c)

ProtocolSpec == Init /\ [][ProtocolNext]_vars

\* The daemon on a system where Accept may fail.
ServeNext ==
  \/ Next
  \/ AcceptFails

ServeSpec == Init /\ [][ServeNext]_vars

(* ----------------- NewServer and the socket path ------------------------ *)

\* The entries that may be at the socket path before any daemon is started:
\* nothing, a regular file, or the socket of a daemon that is gone.
InitialEntries == { NoEntry, FileEntry, SocketEntry(0) }

\* A process calls NewServer(path).  The calls come one after the other, in
\* the order of the process numbers; an earlier process may still be serving.
Start(p) ==
  /\ np[p] = "idle"
  /\ \A q \in Procs : q < p => np[q] # "idle"
  /\ \A q \in Procs : np[q] \in {"idle", "serving", "closed", "failed"}
  /\ np' = [np EXCEPT ![p] = "probe"]
  /\ UNCHANGED << path, killq, nerr, daemonVars >>

\* A daemon listens at the path: the entry is the socket of a process whose
\* listener is open.
Live(e) == e.kind = "socket" /\ e.of \in Procs /\ np[e.of] = "serving"

\* if c, err := NewClient(path); err == nil { c.Kill() }: the client reaches
\* the daemon that listens at the path, if there is one, and sends it `kill`
\* without waiting for the daemon to act on it.
NewClientKill(p) ==
  /\ np[p] = "probe"
  /\ killq' = IF Live(path) THEN [killq EXCEPT ![path.of] = @ + 1] ELSE killq
  /\ np' = [np EXCEPT ![p] = "stat"]
  /\ UNCHANGED << path, nerr, daemonVars >>

\* removeSocket that does not look at the mode of the entry.
removeSocketStat_noModeTest(p) ==
  /\ np[p] = "stat"
  /\ np' = [np EXCEPT ![p] = IF path.kind = "none" THEN "listen" ELSE "remove"]
  /\ UNCHANGED << path, killq, nerr, daemonVars >>

\* removeSocket, os.Stat(path): an error (no entry) is returned and ignored
\* by NewServer; an entry that is not a socket gives the error wrapping
\* ErrCantBind, which NewServer returns; a socket goes on to os.Remove.
removeSocketStat(p) ==
  /\ np[p] = "stat"
  /\ IF path.kind = "none"
       THEN np' = [np EXCEPT ![p] = "listen"] /\ UNCHANGED nerr
     ELSE IF path.kind # "socket"
       THEN /\ np' = [np EXCEPT ![p] = "failed"]
            /\ nerr' = [nerr EXCEPT ![p] =
                 [msg |-> "can't bind agent socket: refusing to remove something that isn't a socket",
                  wraps |-> "ErrCantBind"]]
     ELSE np' = [np EXCEPT ![p] = "remove"] /\ UNCHANGED nerr
  /\ UNCHANGED << path, killq, daemonVars >>

\* removeSocket, os.Remove(path): whatever is at the path now is removed; an
\* error (nothing there any more) is ignored by NewServer.
removeSocketRemove(p) ==
  /\ np[p] = "remove"
  /\ path' = NoEntry
  /\ np' = [np EXCEPT ![p] = "listen"]
  /\ UNCHANGED << killq, nerr, daemonVars >>

\* The socket path, as DefaultServer builds it.
AgentSock == "$HOME/.fly/fly-agent.sock"

\* The reasons bind(2) may fail with: the path is taken, or the directory
\* does not let the process create the socket.
BindErrnos == {"EADDRINUSE", "EACCES"}

ErrnoText(e) ==
  IF e = "EADDRINUSE" THEN "address already in use" ELSE "permission denied"

\* The error net.ListenUnix returns when bind fails with errno e.
BindError(e) ==
  [msg |-> "listen unix " \o AgentSock \o ": bind: " \o ErrnoText(e), wraps |-> e]

\* fmt.Errorf("can't bind: %w", err)
CantBind(err) == [msg |-> "can't bind: " \o err.msg, wraps |-> err.wraps]

\* NewServer returning the error of net.ListenUnix as it is.
ListenUnix_unwrapped(p) ==
  /\ np[p] = "listen"
  /\ \/ /\ path.kind = "none"
        /\ path' = SocketEntry(p)
        /\ np' = [np EXCEPT ![p] = "serving"]
        /\ UNCHANGED nerr
     \/ \E e \in BindErrnos :
          /\ (path.kind # "none") = (e = "EADDRINUSE")
          /\ np' = [np EXCEPT ![p] = "failed"]
          /\ nerr' = [nerr EXCEPT ![p] = BindError(e)]
          /\ UNCHANGED path
  /\ UNCHANGED << killq, daemonVars >>

\* net.ListenUnix("unix", addr) and l.SetUnlinkOnClose(true): the bind
\* creates the socket at the path, or fails, and then NewServer returns the
\* error wrapped in "can't bind: %w".  (net.ResolveUnixAddr does not fail for
\* the network "unix".)
ListenUnix(p) ==
  /\ np[p] = "listen"
  /\ \/ /\ path.kind = "none"
        /\ path' = SocketEntry(p)
        /\ np' = [np EXCEPT ![p] = "serving"]
        /\ UNCHANGED nerr
     \/ \E e \in BindErrnos :
          /\ (path.kind # "none") = (e = "EADDRINUSE")
          /\ np' = [np EXCEPT ![p] = "failed"]
          /\ nerr' = [nerr EXCEPT ![p] = CantBind(BindError(e))]
          /\ UNCHANGED path
  /\ UNCHANGED << killq, daemonVars >>

\* A serving daemon handles a `kill` sent to it: handleKill closes the
\* listener, and closing a listener marked unlink-on-close unlinks the
\* socket path, whatever is bound there by now.  Requests still waiting are
\* lost with the listener.
ServeKill(p) ==
  /\ np[p] = "serving"
  /\ killq[p] > 0
  /\ path' = NoEntry
  /\ np' = [np EXCEPT ![p] = "closed"]
  /\ killq' = [killq EXCEPT ![p] = 0]
  /\ UNCHANGED << nerr, daemonVars >>

RestartInit ==
  /\ DaemonInit
  /\ path \in InitialEntries
  /\ RestartIdle

RestartNext ==
  \/ \E p \in Procs : Start(p)
  \/ \E p \in Procs : NewClientKill(p)
  \/ \E p \in Procs : removeSocketStat(p)
  \/ \E p \in Procs : removeSocketRemove(p)
  \/ \E p \in Procs : ListenUnix(p)
  \/ \E p \in Procs : ServeKill(p)

RestartSpec == RestartInit /\ [][RestartNext]_vars

(* ------------------------- vocabulary of the claims -------------------- *)

Slugs == {"acme", "beta"}

Has(seq, e) == \E i \in 1..Len(seq) : seq[i] = e

\* the handler of c has ended: it returned, or it panicked
Finished(c) == pc[c] \in {"done", "panicked"}

\* the daemon accepted c and started a handler for it
Served(c) == pc[c] \notin {"idle", "backlog", "refused"}

IsEstablish(c, o) == ~input[c].eof /\ Args(c) = <<"establish", o>>

IsConnect(c) ==
  /\ ~input[c].eof
  /\ Args(c)[1] = "connect"
  /\ Len(Args(c)) \in {2, 3}
  /\ (Len(Args(c)) = 3 => ParseUintOk(Args(c)[3]))

EstPcs == {"est_lock", "est_orgs", "est_state", "est_connect"}

\* a collaborator failed, or the organization was not found
EstFailed(l) ==
  \E e \in {"malformed", "dir_err", "no_org", "state_err", "open_err"} : Has(l, e)

KillHandled == \E c \in Conns : Has(log[c], "kill")

\* The zero value of *wg.Tunnel.
NilTunnel == [by |-> 0, cfg |-> ""]

\* tunnelFor returning whatever the map read yields, without looking at ok.
tunnelFor_noOkCheck(t, slug) ==
  [tunnel |-> IF MapHas(t, slug) THEN t.m[slug] ELSE NilTunnel, err |-> NoErr]

\* Server.tunnelFor: the stored tunnel, or the no-tunnel error.
tunnelFor(t, slug) ==
  IF MapHas(t, slug)
    THEN [tunnel |-> t.m[slug], err |-> NoErr]
    ELSE [tunnel |-> NilTunnel,
          err |-> "no tunnel for " \o slug \o " established"]

(* ------------------------ calls of Server.tunnelFor -------------------- *)

\* The slugs tunnelFor is called with, and the registries it is called on:
\* the nil map NewServer leaves, and made maps with none, one or two entries.
TunnelSlugs == { "acme", "beta", "ghost" }

StoredTunnel(slug) == [by |-> 1, cfg |-> "wg-" \o slug]

Registries ==
  { NilMap,
    [nil |-> FALSE, m |-> <<>>],
    MapPut([nil |-> FALSE, m |-> <<>>], "acme", StoredTunnel("acme")),
    MapPut(MapPut([nil |-> FALSE, m |-> <<>>], "acme", StoredTunnel("acme")),
           "beta", StoredTunnel("beta")) }

\* the value Server.lock holds while caller k has it
CallerLock(k) == 0 - k

\* a goroutine calls s.tunnelFor(slug)
tunnelForCall(k) ==
  /\ tf[k].pc = "idle"
  /\ \E slug \in TunnelSlugs :
       tf' = [tf EXCEPT ![k] = [pc |-> "lock", slug |-> slug, res |-> <<>>]]
  /\ UNCHANGED << listener, servePC, crashed, tunnels, lock, pc, input, reply,
                  org, pumps, sessions, log, delivered, serveLog, cliClosed,
                  dstClosed, restartVars, img, svc, pg >>

\* s.lock.Lock()
tunnelForLock(k) ==
  /\ tf[k].pc = "lock"
  /\ lock = 0
  /\ lock' = CallerLock(k)
  /\ tf' = [tf EXCEPT ![k].pc = "lookup"]
  /\ UNCHANGED << listener, servePC, crashed, tunnels, pc, input, reply,
                  org, pumps, sessions, log, delivered, serveLog, cliClosed,
                  dstClosed, restartVars, img, svc, pg >>

\* tunnel, ok := s.tunnels[slug]; the return, and the deferred Unlock
tunnelForReturn(k) ==
  /\ tf[k].pc = "lookup"
  /\ tf' = [tf EXCEPT ![k].pc = "returned",
                      ![k].res = << tunnelFor(tunnels, tf[k].slug) >>]
  /\ lock' = 0
  /\ UNCHANGED << listener, servePC, crashed, tunnels, pc, input, reply,
                  org, pumps, sessions, log, delivered, serveLog, cliClosed,
                  dstClosed, restartVars, img, svc, pg >>

TunnelForInit ==
  /\ TunnelForIdle
  /\ ResolveIdle
  /\ PatchIdle
  /\ PgIdle
  /\ tunnels \in Registries
  /\ listener = "open"
  /\ servePC = "accept"
  /\ crashed = FALSE
  /\ lock = 0
  /\ pc = [c \in Conns |-> "idle"]
  /\ input = [c \in Conns |-> [eof |-> TRUE, line |-> <<>>]]
  /\ reply = [c \in Conns |-> <<>>]
  /\ org = [c \in Conns |-> ""]
  /\ pumps = [c \in Conns |-> {}]
  /\ sessions = {}
  /\ log = [c \in Conns |-> <<>>]
  /\ delivered = [c \in Conns |-> <<>>]
  /\ serveLog = <<>>
  /\ cliClosed = [c \in Conns |-> FALSE]
  /\ dstClosed = [c \in Conns |-> FALSE]
  /\ path = NoEntry
  /\ RestartIdle

TunnelForNext ==
  \E k \in Callers :
    \/ tunnelForCall(k)
    \/ tunnelForLock(k)
    \/ tunnelForReturn(k)

TunnelForSpec == TunnelForInit /\ [][TunnelForNext]_vars

(* --------------------------- Resolver.Resolve -------------------------- *)

\* strategies := []resolverStrategy{...}, in the order of the slice
Strategies ==
  << "localImageResolver", "remoteImageResolver", "dockerfileStrategy",
     "buildpacksStrategy", "builtinBuilder" >>

\* What s.Run can return: (nil, nil), an image, an error, or both.
RunKinds == { "nothing", "image", "error", "both" }

\* a *DeploymentImage (its ID; "" is nil) and an error ("" is nil)
NoImage == ""

RunResult(k, kind) ==
  [ img |-> IF kind \in {"image", "both"} THEN "image of " \o Strategies[k]
                                           ELSE NoImage,
    err |-> IF kind \in {"error", "both"} THEN Strategies[k] \o " failed"
                                           ELSE NoErr ]

\* One pass of the loop that goes on to the next strategy after an error.
strategyRun_ignoreErr ==
  /\ img # <<>>
  /\ img.ret = <<>>
  /\ img.i <= Len(Strategies)
  /\ LET r == RunResult(img.i, img.kinds[img.i])
     IN  img' = [img EXCEPT
                   !.ran = Append(@, Strategies[img.i]),
                   !.i = @ + 1,
                   !.ret = IF r.img # NoImage
                             THEN << [img |-> r.img, err |-> NoErr] >>
                             ELSE <<>>]
  /\ UNCHANGED << serverVars, restartVars, tf, svc, pg >>

\* One pass of the loop: s.Run, then the two returns.
strategyRun ==
  /\ img # <<>>
  /\ img.ret = <<>>
  /\ img.i <= Len(Strategies)
  /\ LET r == RunResult(img.i, img.kinds[img.i])
     IN  img' = [img EXCEPT
                   !.ran = Append(@, Strategies[img.i]),
                   !.i = @ + 1,
                   !.ret = IF r.err # NoErr
                             THEN << [img |-> NoImage, err |-> r.err] >>
                             ELSE IF r.img # NoImage
                                    THEN << [img |-> r.img, err |-> NoErr] >>
                                    ELSE <<>>]
  /\ UNCHANGED << serverVars, restartVars, tf, svc, pg >>

\* the loop is over: return nil, nil
resolveReturnNil ==
  /\ img # <<>>
  /\ img.ret = <<>>
  /\ img.i > Len(Strategies)
  /\ img' = [img EXCEPT !.ret = << [img |-> NoImage, err |-> NoErr] >>]
  /\ UNCHANGED << serverVars, restartVars, tf, svc, pg >>

\* A call of Resolve; what each strategy will return is the environment's.
ResolveInit ==
  /\ ServerInit
  /\ path = NoEntry
  /\ RestartIdle
  /\ TunnelForIdle
  /\ PatchIdle
  /\ PgIdle
  /\ \E kinds \in [1..Len(Strategies) -> RunKinds] :
       img = [kinds |-> kinds, i |-> 1, ran |-> <<>>, ret |-> <<>>]

ResolveNext ==
  \/ strategyRun
  \/ resolveReturnNil

ResolveSpec == ResolveInit /\ [][ResolveNext]_vars

(* ----------------------- _patchService, _patchChecks ------------------- *)

\* the longest list of checks a service is given
MaxChecks == 1

\* m[k] = v on a map[string]any
SetKey(m, k, v) ==
  [x \in (DOMAIN m) \cup {k} |-> IF x = k THEN v ELSE m[x]]

\* The values of a check's fields: an int64, a string, a time.Duration (in
\* nanoseconds).
Int64Value(n) == [type |-> "int64", n |-> n, s |-> ""]

StringValue(str) == [type |-> "string", n |-> 0, s |-> str]

DurationValue(ns) == [type |-> "time.Duration", n |-> ns, s |-> ""]

\* time.Millisecond, in nanoseconds
Millisecond == 1000000

CheckKeys == { "interval", "timeout" }

CheckValues == { Int64Value(250), Int64Value(1500), StringValue("10s") }

\* the checks of an old config: each field absent, a string or an integer
Checks == UNION { [D -> CheckValues] : D \in SUBSET CheckKeys }

\* what the TOML decoder leaves under tcp_checks / http_checks: a []any of
\* maps, or a value of another type (here a string)
RawChecks ==
  { [type |-> "[]any", items |-> items] :
      items \in UNION { [1..n -> Checks] : n \in 0..MaxChecks } }
    \cup { [type |-> "string", items |-> <<>>] }

ServiceKeys == { "tcp_checks", "http_checks" }

Services == UNION { [D -> RawChecks] : D \in SUBSET ServiceKeys }

\* the body of the loop of _patchChecks, on one check
patchCheck(check) ==
  LET c1 == IF "interval" \in DOMAIN check /\ check["interval"].type = "int64"
              THEN SetKey(check, "interval",
                          DurationValue(check["interval"].n * Millisecond))
              ELSE check
  IN  IF "timeout" \in DOMAIN c1 /\ c1["timeout"].type = "int64"
        THEN SetKey(c1, "interval",
                    DurationValue(c1["timeout"].n * Millisecond))
        ELSE c1

\* _patchChecks: ensureArrayOfMap, then the loop
_patchChecks(raw) ==
  IF raw.type \in {"[]any", "[]map[string]any"}
    THEN [checks |-> [i \in 1..Len(raw.items) |-> patchCheck(raw.items[i])],
          err |-> NoErr]
    ELSE [checks |-> <<>>, err |-> "Unknown type '" \o raw.type \o "'"]

\* The tail of _patchService (lines 200-216).  The maps of the list under a
\* key are the maps _patchChecks writes to, so the list under the key it was
\* read from shows the patched fields as well.
_patchService(service) ==
  LET tcp  == IF "tcp_checks" \in DOMAIN service
                THEN _patchChecks(service["tcp_checks"])
                ELSE [checks |-> <<>>, err |-> NoErr]
      s1   == IF "tcp_checks" \in DOMAIN service
                THEN SetKey(service, "tcp_checks",
                            [type |-> "[]map[string]any", items |-> tcp.checks])
                ELSE service
      http == IF "http_checks" \in DOMAIN s1
                THEN _patchChecks(s1["http_checks"])
                ELSE [checks |-> <<>>, err |-> NoErr]
      s2   == IF "http_checks" \in DOMAIN s1
                THEN SetKey(
                       SetKey(s1, "http_checks",
                              [s1["http_checks"] EXCEPT !.items = http.checks]),
                       "tcp_checks",
                       [type |-> "[]map[string]any", items |-> http.checks])
                ELSE s1
  IN  IF tcp.err # NoErr
        THEN [service |-> <<>>,
              err |-> "Error processing tcp_checks: "
                        \o service["tcp_checks"].type]
        ELSE IF http.err # NoErr
               THEN [service |-> <<>>,
                     err |-> "Error processing tcp_checks: "
                               \o s1["http_checks"].type]
               ELSE [service |-> << s2 >>, err |-> NoErr]

\* patchServices calls _patchService(service)
patchServiceCall ==
  /\ svc # <<>>
  /\ svc.out = <<>>
  /\ svc' = [svc EXCEPT !.out = << _patchService(svc.in) >>]
  /\ UNCHANGED << serverVars, restartVars, tf, img, pg >>

PatchInit ==
  /\ ServerInit
  /\ path = NoEntry
  /\ RestartIdle
  /\ TunnelForIdle
  /\ ResolveIdle
  /\ PgIdle
  /\ \E service \in Services : svc = [in |-> service, out |-> <<>>]

PatchNext == patchServiceCall

PatchSpec == PatchInit /\ [][PatchNext]_vars

(* --------------------------- `postgres restart` ------------------------ *)

\* the largest cluster flapsClient.List returns
MaxMachines == 3

\* the error a remote call fails with
ApiErr == "api error"

\* One call made to the platform or to a node, and whether it succeeded.
\* Machines are numbered in the order of the list; 0 is no machine.
Call(op, id, ok) == [op |-> op, id |-> id, ok |-> ok]

\* nodeRoles(ctx, machines): the leader, and the other machines in the order
\* of the list
Replicas(p) ==
  SelectSeq([i \in 1..p.n |-> i], LAMBDA m : m # p.leader)

\* releaseLease(ctx, flapsClient, machine): gives the machine's lease back
releaseLease(p, m) ==
  [p EXCEPT !.trace = Append(@, Call("release", m, TRUE)),
            !.held = @ \ {m}]

\* the deferred calls of a function run, last deferred first
RECURSIVE RunDeferred(_)
RunDeferred(p) ==
  IF p.defers = <<>>
    THEN p
    ELSE RunDeferred(
           releaseLease([p EXCEPT !.defers = SubSeq(@, 1, Len(@) - 1)],
                        p.defers[Len(p.defers)]))

\* return err: the deferred calls run, then the caller has the error
PgReturn(p, err) ==
  [RunDeferred(p) EXCEPT !.pc = "done", !.ret = << err >>]

\* the step after the replicas: the failover, or the leader when the
\* failover is skipped
AfterReplicas(p) == IF p.n > 1 THEN "failover" ELSE "leader"

\* runRestart, case "machines", up to the branch on --hard: List has
\* returned p.n members; nodeRoles and the version check can fail
runRestartMachines ==
  /\ pg # <<>>
  /\ pg.pc = "start"
  /\ pg.hard
  /\ \E ok \in BOOLEAN :
       pg' = IF ~ok
               THEN PgReturn(pg, "can't fetch leader: " \o ApiErr)
               ELSE IF pg.leader = 0
                      THEN PgReturn(pg, "no leader found")
                      ELSE [pg EXCEPT !.pc = IF Replicas(pg) # <<>>
                                               THEN "h_replicas"
                                               ELSE IF pg.n > 1
                                                      THEN "h_failover"
                                                      ELSE "h_failover2",
                                      !.k = 1]
  /\ UNCHANGED << serverVars, restartVars, tf, img, svc >>

\* machine.Restart(ctx, replica) in the loop of the hard restart
hardRestartReplica ==
  /\ pg # <<>>
  /\ pg.pc = "h_replicas"
  /\ LET r == Replicas(pg)[pg.k]
     IN  \E ok \in BOOLEAN :
           LET p == [pg EXCEPT !.trace = Append(@, Call("restart_vm", r, ok))]
           IN  pg' = IF ~ok
                       THEN PgReturn(p, "failed to restart vm " \o ToString(r)
                                          \o ": " \o ApiErr)
                       ELSE [p EXCEPT !.k = @ + 1,
                                      !.pc = IF pg.k < Len(Replicas(pg))
                                               THEN "h_replicas"
                                               ELSE IF pg.n > 1
                                                      THEN "h_failover"
                                                      ELSE "h_failover2"]
  /\ UNCHANGED << serverVars, restartVars, tf, img, svc >>

\* if len(members) > 1 { pgclient.Failover(ctx) }
hardFailover ==
  /\ pg # <<>>
  /\ pg.pc = "h_failover"
  /\ \E ok \in BOOLEAN :
       LET p == [pg EXCEPT !.trace = Append(@, Call("failover", 0, ok))]
       IN  pg' = IF ~ok
                   THEN PgReturn(p, "failed to trigger failover " \o ApiErr)
                   ELSE [p EXCEPT !.pc = "h_failover2"]
  /\ UNCHANGED << serverVars, restartVars, tf, img, svc >>

\* the pgclient.Failover(ctx) that follows, under no condition
hardFailoverAgain ==
  /\ pg # <<>>
  /\ pg.pc = "h_failover2"
  /\ \E ok \in BOOLEAN :
       LET p == [pg EXCEPT !.trace = Append(@, Call("failover", 0, ok))]
       IN  pg' = IF ~ok
                   THEN PgReturn(p, "failed to trigger failover " \o ApiErr)
                   ELSE [p EXCEPT !.pc = "h_leader"]
  /\ UNCHANGED << serverVars, restartVars, tf, img, svc >>

\* machine.Restart(ctx, leader), and the return
hardRestartLeader ==
  /\ pg # <<>>
  /\ pg.pc = "h_leader"
  /\ \E ok \in BOOLEAN :
       LET p == [pg EXCEPT !.trace = Append(@, Call("restart_vm", pg.leader, ok))]
       IN  pg' = IF ~ok
                   THEN PgReturn(p, "failed to restart vm "
                                      \o ToString(pg.leader) \o ": " \o ApiErr)
                   ELSE PgReturn(p, NoErr)
  /\ UNCHANGED << serverVars, restartVars, tf, img, svc >>

\* restartMachinesPG up to the leases: List has returned p.n machines
restartMachinesPG ==
  /\ pg # <<>>
  /\ pg.pc = "start"
  /\ ~pg.hard
  /\ \E ok \in BOOLEAN :
       pg' = IF pg.n = 0
               THEN PgReturn(pg, "no machines found")
               ELSE IF ~ok
                      THEN PgReturn(pg, "can't fetch leader: " \o ApiErr)
                      ELSE IF pg.leader = 0
                             THEN PgReturn(pg, "no leader found")
                             ELSE [pg EXCEPT !.pc = "leases", !.k = 1]
  /\ UNCHANGED << serverVars, restartVars, tf, img, svc >>

\* GetLease without the defer of releaseLease.
GetLease_noDefer ==
  /\ pg # <<>>
  /\ pg.pc = "leases"
  /\ \E ok \in BOOLEAN :
       LET p == [pg EXCEPT !.trace = Append(@, Call("lease", pg.k, ok))]
       IN  pg' = IF ~ok
                   THEN PgReturn(p, "failed to obtain lease: " \o ApiErr)
                   ELSE [p EXCEPT !.held = @ \cup {pg.k},
                                  !.k = IF pg.k < pg.n THEN @ + 1 ELSE 1,
                                  !.pc = IF pg.k < pg.n
                                           THEN "leases"
                                           ELSE IF Replicas(pg) # <<>>
                                                  THEN "replicas"
                                                  ELSE AfterReplicas(pg)]
  /\ UNCHANGED << serverVars, restartVars, tf, img, svc >>

\* one pass of the lease loop: GetLease, the nonce, defer releaseLease
GetLease ==
  /\ pg # <<>>
  /\ pg.pc = "leases"
  /\ \E ok \in BOOLEAN :
       LET p == [pg EXCEPT !.trace = Append(@, Call("lease", pg.k, ok))]
       IN  pg' = IF ~ok
                   THEN PgReturn(p, "failed to obtain lease: " \o ApiErr)
                   ELSE [p EXCEPT !.held = @ \cup {pg.k},
                                  !.defers = Append(@, pg.k),
                                  !.k = IF pg.k < pg.n THEN @ + 1 ELSE 1,
                                  !.pc = IF pg.k < pg.n
                                           THEN "leases"
                                           ELSE IF Replicas(pg) # <<>>
                                                  THEN "replicas"
                                                  ELSE AfterReplicas(pg)]
  /\ UNCHANGED << serverVars, restartVars, tf, img, svc >>

\* The replica loop going on to the next member after a failed restart.
RestartReplicaPG_goOn ==
  /\ pg # <<>>
  /\ pg.pc = "replicas"
  /\ LET r == Replicas(pg)[pg.k]
     IN  \E ok \in BOOLEAN :
           pg' = [pg EXCEPT !.trace = Append(@, Call("restart_pg", r, ok)),
                            !.k = @ + 1,
                            !.pc = IF pg.k < Len(Replicas(pg))
                                     THEN "replicas"
                                     ELSE AfterReplicas(pg)]
  /\ UNCHANGED << serverVars, restartVars, tf, img, svc >>

\* pgclient.RestartNodePG(ctx) on a replica, in the loop
RestartReplicaPG ==
  /\ pg # <<>>
  /\ pg.pc = "replicas"
  /\ LET r == Replicas(pg)[pg.k]
     IN  \E ok \in BOOLEAN :
           LET p == [pg EXCEPT !.trace = Append(@, Call("restart_pg", r, ok))]
           IN  pg' = IF ~ok
                       THEN PgReturn(p, "failed to restart postgres on node: "
                                          \o ApiErr)
                       ELSE [p EXCEPT !.k = @ + 1,
                                      !.pc = IF pg.k < Len(Replicas(pg))
                                               THEN "replicas"
                                               ELSE AfterReplicas(pg)]
  /\ UNCHANGED << serverVars, restartVars, tf, img, svc >>

\* if len(machines) > 1 { pgclient.Failover(ctx) }
Failover ==
  /\ pg # <<>>
  /\ pg.pc = "failover"
  /\ \E ok \in BOOLEAN :
       LET p == [pg EXCEPT !.trace = Append(@, Call("failover", 0, ok))]
       IN  pg' = IF ~ok
                   THEN PgReturn(p, "failed to trigger failover " \o ApiErr)
                   ELSE [p EXCEPT !.pc = "leader"]
  /\ UNCHANGED << serverVars, restartVars, tf, img, svc >>

\* pgclient.RestartNodePG(ctx) on the leader, and the return
RestartLeaderPG ==
  /\ pg # <<>>
  /\ pg.pc = "leader"
  /\ \E ok \in BOOLEAN :
       LET p == [pg EXCEPT !.trace = Append(@, Call("restart_pg", pg.leader, ok))]
       IN  pg' = IF ~ok
                   THEN PgReturn(p, "failed to restart postgres on node: "
                                      \o ApiErr)
                   ELSE PgReturn(p, NoErr)
  /\ UNCHANGED << serverVars, restartVars, tf, img, svc >>

\* `postgres restart` on a machines app: with or without --hard, on a list
\* of 0 to MaxMachines started machines, one of them the leader or none.
PgInit ==
  /\ ServerInit
  /\ path = NoEntry
  /\ RestartIdle
  /\ TunnelForIdle
  /\ ResolveIdle
  /\ PatchIdle
  /\ \E hard \in BOOLEAN, n \in 0..MaxMachines :
       \E leader \in 0..n :
         pg = [hard |-> hard, n |-> n, leader |-> leader, pc |-> "start",
               k |-> 0, trace |-> <<>>, defers |-> <<>>, held |-> {},
               ret |-> <<>>]

PgNext ==
  \/ runRestartMachines
  \/ hardRestartReplica
  \/ hardFailover
  \/ hardFailoverAgain
  \/ hardRestartLeader
  \/ restartMachinesPG
  \/ GetLease
  \/ RestartReplicaPG
  \/ Failover
  \/ RestartLeaderPG

PgSpec == PgInit /\ [][PgNext]_vars

(* --------------------------------- C1 ---------------------------------- *)

\* C1: when two clients issue `establish O` on two connections of a freshly
\* started daemon, for an organization the directory lists and with the
\* collaborators answering, each of them that has ended was answered `ok`
\* and the registry holds the tunnel for O.
C1_ConcurrentEstablishBothOk ==
  \A c1, c2 \in Conns : \A o \in Slugs :
    ( /\ c1 # c2
      /\ IsEstablish(c1, o) /\ IsEstablish(c2, o)
      /\ Served(c1) /\ Served(c2)
      /\ Finished(c1) /\ ~EstFailed(log[c1]) )
    => ( /\ reply[c1] = <<"ok">>
         /\ MapHas(tunnels, o) )

(* --------------------------------- C2 ---------------------------------- *)

\* C2: a well-formed `connect` for a destination whose organization has no
\* tunnel in the registry makes no dial, is never answered `ok`, and ends
\* with the no-tunnel error.
C2_ConnectRequiresTunnel ==
  \A c \in Conns :
    ( IsConnect(c) /\ Served(c) /\ ~MapHas(tunnels, Owner(Args(c)[2])) )
    => ( /\ ~Has(log[c], "dial")
         /\ ~Has(reply[c], "ok")
         /\ ( Finished(c) =>
                reply[c] = << "err err handling connect: "
                              \o tunnelFor(tunnels, Owner(Args(c)[2])).err >> ) )

(* --------------------------------- C3 ---------------------------------- *)

\* C3: as long as no `kill` has been handled, whatever the requests were,
\* the daemon process is alive and its listener is open.
C3_NoRequestStopsDaemon ==
  ~KillHandled => ( ~crashed /\ listener = "open" )

(* --------------------------------- C4 ---------------------------------- *)

C5_OneTunnelPerOrg ==
  /\ \A o \in Slugs : Cardinality({ s \in sessions : s.cfg = o }) <= 1
  /\ \A c \in Conns : \A o \in Slugs :
       ( /\ IsEstablish(c, o) /\ Finished(c) /\ ~EstFailed(log[c])
         /\ \E s \in sessions : s.cfg = o )
       => ( reply[c] = <<"ok">> /\ MapHas(tunnels, o) )

(* --------------------------------- C6 ---------------------------------- *)

Before(l, i, e) == \E j \in 1..(i - 1) : l[j] = e

\* C6 as stated: handleEstablish looks the organization up in the registry
\* before any call to the directory.
C6_ExistenceCheckBeforeDirectory ==
  \A c \in Conns : \A i \in 1..Len(log[c]) :
    log[c][i] \in {"dir", "dir_err"} => Before(log[c], i, "check")

\* C6 as amended: handleEstablish calls the directory first and looks into
\* the registry only after the lookup succeeded and listed the organization,
\* and before any call for the tunnel configuration or to the tunnel
\* provider; when the lookup fails or does not list the organization the
\* registry is not consulted and the reply is that error.
C6_ExistenceCheckAfterDirectory ==
  \A c \in Conns :
    /\ \A i \in 1..Len(log[c]) :
         /\ log[c][i] = "check" => Before(log[c], i, "dir")
         /\ log[c][i] \in {"state", "state_err", "open", "open_err"}
              => Before(log[c], i, "check")
    /\ Has(log[c], "dir_err") =>
         /\ ~Has(log[c], "check")
         /\ reply[c] = <<"err err handling establish: can't load organizations from config: E">>
    /\ Has(log[c], "no_org") =>
         /\ ~Has(log[c], "check")
         /\ reply[c] = <<"err err handling establish: no such organization">>

\* one establish got past the registry lookup, another was refused by the
\* directory lookup
C6_Witness ==
  \E c1, c2 \in Conns :
    /\ Has(log[c1], "check") /\ Finished(c1)
    /\ Has(log[c2], "no_org") /\ Finished(c2)

(* --------------------------------- C7 ---------------------------------- *)

\* C7: once a `kill` has been handled the listener is closed, the only step
\* left to Serve is to return, which it does unless the process has ended
\* before; no connection is accepted any more and every later attempt to
\* connect fails.
C7_KillStopsAccepting ==
  /\ [][ KillHandled' =>
           /\ listener' = "closed"
           /\ (servePC' # servePC => servePC' = "returned")
           /\ KillHandled =>
                \A c \in Conns :
                  /\ pc'[c] = "read" => pc[c] = "read"
                  /\ (pc[c] = "idle" /\ pc'[c] # "idle") => pc'[c] = "refused" ]_vars
  /\ (KillHandled ~> (servePC = "returned" \/ crashed))

\* a kill was handled, Serve returned, and a later client was refused
C7_Witness ==
  /\ KillHandled
  /\ servePC = "returned"
  /\ \E c \in Conns : pc[c] = "refused"

(* --------------------------------- C8 ---------------------------------- *)

\* the reply to the unknown commands of Lines
BadCommandReply(args) ==
  CASE args = <<"bogus", "foo">> -> "err bad command: [bogus foo]"
    [] args = <<"">> -> "err bad command: []"
    [] OTHER -> "?"

\* C8: the step that handles a line whose first token is not a command
\* writes `err bad command: <args>` and nothing else, runs no handler,
\* closes the connection, and leaves the listener, the process, the
\* registry, the lock and the provider's sessions as they were.
C8_UnknownCommand ==
  [][ \A c \in Conns :
        ( /\ pc[c] = "read" /\ pc'[c] # "read"
          /\ ~input[c].eof
          /\ Args(c)[1] \notin {"ping", "kill", "establish", "connect"} )
        => ( /\ reply'[c] = <<BadCommandReply(Args(c))>>
             /\ pc'[c] = "done"
             /\ log'[c] = <<"close">>
             /\ UNCHANGED << listener, servePC, crashed, tunnels, lock, sessions >> ) ]_vars

\* `bogus foo` was answered, and a ping on the later connection too
C8_Witness ==
  /\ NConns >= 2
  /\ reply[1] = <<"err bad command: [bogus foo]">>
  /\ pc[1] = "done"
  /\ reply[2] = <<"pong 4242">>

(* --------------------------------- C9 ---------------------------------- *)

\* C9 as stated: a failed dial is answered `err connection failed: <reason>`.
C9_DialFailureReplyAsStated ==
  \A c \in Conns :
    Has(log[c], "dial_err") =>
      /\ reply[c] = <<"err connection failed: E">>
      /\ pumps[c] = {}
      /\ ~Has(log[c], "pump")

\* C9 as amended: a failed dial is answered with the single line
\* `err err handling connect: connection failed: <reason>`; no `ok` is sent
\* and no byte pump is started.
C9_DialFailureReply ==
  \A c \in Conns :
    Has(log[c], "dial_err") =>
      /\ reply[c] = <<"err err handling connect: connection failed: E">>
      /\ pumps[c] = {}
      /\ ~Has(log[c], "pump")

C9_Witness ==
  \E c \in Conns : Has(log[c], "dial_err") /\ Finished(c) /\ Len(Args(c)) = 3

(* --------------------------------- C10 --------------------------------- *)

\* the lines by which handle reports a failed establish
EstablishErrLines ==
  { "err err handling establish: malformed establish command",
    "err err handling establish: can't load organizations from config: E",
    "err err handling establish: no such organization",
    "err err handling establish: can't get wireguard state for acme: E",
    "err err handling establish: can't get wireguard state for beta: E",
    "err err handling establish: can't connect wireguard: E" }

\* C10: no step of handleEstablish before its last changes the registry, and
\* the step by which it fails (directory error, organization not found,
\* configuration error, session open error) leaves the registry as it was,
\* releases the lock and reports the error as the only line of the reply.
C10_FailedEstablishLeavesRegistry ==
  [][ \A c \in Conns :
        ( pc[c] \in EstPcs /\ pc'[c] # pc[c] )
        => ( /\ pc'[c] \in EstPcs => tunnels' = tunnels
             /\ EstFailed(log'[c]) =>
                  /\ tunnels' = tunnels
                  /\ pc'[c] = "done"
                  /\ lock' = 0
                  /\ Len(reply'[c]) = 1
                  /\ reply'[c][1] \in EstablishErrLines ) ]_vars

\* an establish failed when the session was opened, another at the
\* configuration fetch
C10_Witness ==
  \E c1, c2 \in Conns :
    /\ Has(log[c1], "open_err") /\ Finished(c1)
    /\ Has(log[c2], "state_err") /\ Finished(c2)

(* --------------------------------- C11 --------------------------------- *)

Count(seq, e) == Cardinality({ i \in 1..Len(seq) : seq[i] = e })

\* C11: in a relay neither the destination connection nor the control
\* connection is closed by the handler while a byte pump is still running,
\* and a handler that has returned from a relay has closed both.
C11_CloseAfterBothPumps ==
  \A c \in Conns :
    Has(log[c], "pump") =>
      /\ ( Has(log[c], "outclose") \/ Has(log[c], "close") ) =>
           ( pumps[c] = {} /\ Count(log[c], "copied") = 2 )
      /\ pc[c] = "done" => ( Has(log[c], "outclose") /\ Has(log[c], "close") )

\* a relay that moved a byte each way has ended and closed both connections
C11_Witness ==
  \E c \in Conns :
    /\ pc[c] = "done" /\ Has(log[c], "outclose")
    /\ Len(delivered[c]) = 1
    /\ Has(reply[c], DestByte(c, 1))

(* --------------------------------- C12 --------------------------------- *)

\* C12: whenever a byte pump has been started, and whenever a byte of the
\* destination has reached the client, the first line on the control
\* connection is `ok`.
C12_OkBeforePumps ==
  \A c \in Conns :
    ( \/ pumps[c] # {}
      \/ Has(log[c], "pump")
      \/ \E i \in 1..Len(reply[c]) : reply[c][i] \in DestBytes )
    => ( Len(reply[c]) >= 1 /\ reply[c][1] = "ok" )

\* the client has received `ok` and then a byte of the destination
C12_Witness ==
  \E c \in Conns :
    Len(reply[c]) >= 2 /\ reply[c][1] = "ok" /\ reply[c][2] = DestByte(c, 1)

(* --------------------------------- C15 --------------------------------- *)

\* C15: the step that handles `ping` writes `pong <pid of the daemon>` as
\* the only line and changes neither the registry nor the listener.
C15_Ping ==
  [][ \A c \in Conns :
        ( /\ pc[c] = "read" /\ pc'[c] # "read"
          /\ ~input[c].eof
          /\ Args(c)[1] = "ping" )
        => ( /\ reply'[c] = << "pong " \o ToString(DaemonPid) >>
             /\ tunnels' = tunnels
             /\ listener' = listener ) ]_vars

C15_Witness ==
  \E c \in Conns : Args(c) = <<"ping">> /\ pc[c] = "done" /\ Len(reply[c]) = 1

(* --------------------------------- C16 --------------------------------- *)

\* every line handleConnect's errors are reported by
ConnectErrLines ==
  { "err err handling connect: malformed connect command: [connect]",
    "err err handling connect: invalid timeout: strconv.ParseUint: parsing \"abc\": invalid syntax",
    "err err handling connect: invalid timeout: strconv.ParseUint: parsing \"-5\": invalid syntax",
    "err err handling connect: connection failed: E" }

\* the lines of the model that start with one of the tags ok, pong, err
StatusLines ==
  { "ok", "pong " \o ToString(DaemonPid),
    "err bad command: [bogus foo]", "err bad command: []" }
  \cup EstablishErrLines \cup ConnectErrLines

\* C16: every command whose handler has ended was answered with at least
\* one line, and the first line starts with ok, pong or err.
C16_EveryCommandAnswered ==
  \A c \in Conns :
    ( Finished(c) /\ ~input[c].eof ) =>
      ( Len(reply[c]) >= 1 /\ reply[c][1] \in StatusLines )

(* --------------------------------- C17 --------------------------------- *)

\* C17: a `connect` whose timeout token is not a non-negative decimal
\* integer (abc, -5) ends with the invalid-timeout error as its only reply
\* and makes no dial; a dial made for a `connect` without a timeout token
\* uses a dialer without timeout, and one made for the token 100 a timeout
\* of 100 ms.
C17_ConnectTimeout ==
  \A c \in Conns :
    ( ~input[c].eof /\ Args(c)[1] = "connect" /\ Served(c) /\ pc[c] # "read" ) =>
      /\ ( Len(Args(c)) = 3 /\ Args(c)[3] = "abc" ) =>
           /\ pc[c] = "done" /\ ~Has(log[c], "dial")
           /\ reply[c] = << "err err handling connect: invalid timeout: strconv.ParseUint: parsing \"abc\": invalid syntax" >>
      /\ ( Len(Args(c)) = 3 /\ Args(c)[3] = "-5" ) =>
           /\ pc[c] = "done" /\ ~Has(log[c], "dial")
           /\ reply[c] = << "err err handling connect: invalid timeout: strconv.ParseUint: parsing \"-5\": invalid syntax" >>
      /\ ( Len(Args(c)) = 2 /\ Has(log[c], "dial") ) => log[c][1] = "d.Timeout = 0"
      /\ ( Len(Args(c)) = 3 /\ Args(c)[3] = "100" /\ Has(log[c], "dial") ) =>
           log[c][1] = "d.Timeout = 100ms"

\* one connect was refused for its timeout token, another without a token
\* was dialed
C17_Witness ==
  \E c1, c2 \in Conns :
    /\ Args(c1) = <<"connect", "10.0.0.1:5432", "-5">> /\ pc[c1] = "done"
    /\ Len(Args(c2)) = 2 /\ Args(c2)[1] = "connect" /\ Has(log[c2], "dial")

(* --------------------------------- C18 --------------------------------- *)

\* C18: `establish ghost`, for an organization in none of the directory's
\* lists, never gets past the directory lookup: each of its steps leaves the
\* registry and the provider's sessions alone, and the step on which
\* GetOrganizations returns ends the request with an error, which is
\* `no such organization` when the lookup itself succeeded.
C18_UnknownOrganization ==
  [][ \A c \in Conns :
        ( IsEstablish(c, "ghost") /\ pc[c] \in EstPcs /\ pc'[c] # pc[c] ) =>
          /\ tunnels' = tunnels
          /\ sessions' = sessions
          /\ pc'[c] \in {"est_orgs", "done"}
          /\ ~Has(log'[c], "state") /\ ~Has(log'[c], "open")
          /\ pc[c] = "est_orgs" =>
               /\ pc'[c] = "done"
               /\ reply'[c] \in
                    { <<"err err handling establish: no such organization">>,
                      <<"err err handling establish: can't load organizations from config: E">> }
               /\ Has(log'[c], "dir") =>
                    reply'[c] = <<"err err handling establish: no such organization">> ]_vars

C18_Witness ==
  \E c \in Conns :
    /\ IsEstablish(c, "ghost") /\ pc[c] = "done"
    /\ reply[c] = <<"err err handling establish: no such organization">>

(* --------------------------------- C19 --------------------------------- *)

\* C19: whatever the handlers are doing, a connection waiting in the backlog
\* of the open listener can be accepted at once, and an accepted connection
\* can be read and dispatched at once.
C19_AcceptNeverWaits ==
  \A c \in Conns :
    /\ ( ~crashed /\ listener = "open" /\ pc[c] = "backlog" ) => ENABLED Accept(c)
    /\ ( ~crashed /\ pc[c] = "read" ) => ENABLED handle(c)

\* a ping was answered on the later connection while an establish held the
\* registry lock inside a network call
C19_Witness ==
  \E c1, c2 \in Conns :
    /\ c1 < c2
    /\ pc[c1] = "est_connect" /\ lock = c1
    /\ reply[c2] = << "pong " \o ToString(DaemonPid) >>

(* --------------------------------- C20 --------------------------------- *)

InCritical(c) == pc[c] \in {"est_orgs", "est_state", "est_connect"}

\* C20: at most one establish handler is between Lock and Unlock, and it is
\* the holder of the lock.
C20_EstablishSerialized ==
  /\ Cardinality({ c \in Conns : InCritical(c) }) <= 1
  /\ \A c \in Conns : InCritical(c) => lock = c

\* one establish is inside the lock, another waits for it
C20_Witness ==
  \E c1, c2 \in Conns :
    /\ IsEstablish(c1, "acme") /\ pc[c1] = "est_state"
    /\ IsEstablish(c2, "beta") /\ pc[c2] = "est_lock"

(* --------------------------------- C13 --------------------------------- *)

\* a daemon that serves and that nobody has asked to terminate
InService(p) == np[p] = "serving" /\ killq[p] = 0

\* C13: of the daemons started at the path, at most one serves without
\* having been asked to terminate, and the socket path refers to the
\* listener of that daemon.
C13_OneDaemonPerPath ==
  /\ Cardinality({ p \in Procs : InService(p) }) <= 1
  /\ \A p \in Procs : InService(p) => path = SocketEntry(p)

(* --------------------------------- C14 --------------------------------- *)

\* C14: no step changes a path entry that is not a socket; removeSocket goes
\* on to os.Remove only for a socket, and what os.Remove takes away is a
\* socket; on an entry that is not a socket removeSocket fails with an error
\* wrapping ErrCantBind, NewServer returns that error and never binds.
C14_RemoveSocketOnlySockets ==
  [][ /\ path.kind = "file" => path' = path
      /\ \A p \in Procs :
           /\ ( np[p] = "stat" /\ np'[p] # "stat" ) =>
                /\ path' = path
                /\ np'[p] = "remove" => path.kind = "socket"
                /\ path.kind = "file" =>
                     ( /\ np'[p] = "failed"
                       /\ IsErrCantBind(nerr'[p])
                       /\ nerr'[p].msg = "can't bind agent socket: refusing to remove something that isn't a socket" )
           /\ ( np[p] = "remove" /\ np'[p] # "remove" /\ path' # path ) =>
                ( path.kind = "socket" /\ path' = NoEntry )
           /\ np[p] = "failed" => np'[p] = "failed" ]_vars

\* NewServer failed on a regular file, which is still there
C14_Witness ==
  \E p \in Procs :
    /\ np[p] = "failed" /\ IsErrCantBind(nerr[p])
    /\ path = FileEntry

(* --------------------------------- C21 --------------------------------- *)

\* The accesses to s.tunnels a handler has made: the lookup of line 265
\* ("check") and the assignment of line 279 ("insert", or "panic" when the
\* assignment panicked).
RegistryAccesses(l) == Count(l, "check") + Count(l, "insert") + Count(l, "panic")

\* this step is one in which the handler of c reads or writes s.tunnels
Accesses(c) == RegistryAccesses(log'[c]) > RegistryAccesses(log[c])

\* C21: a handler reads or writes the registry only in a step it begins as
\* the holder of Server.lock, and no other handler accesses the registry in
\* the same step.
C21_RegistryUnderLock ==
  [][ \A c \in Conns :
        Accesses(c) => ( /\ lock = c
                         /\ \A d \in Conns \ {c} : ~Accesses(d) ) ]_vars

\* a handler has read and written the registry while another establish
\* waited for the lock
C21_Witness ==
  \E c1, c2 \in Conns :
    /\ Has(log[c1], "check") /\ Has(log[c1], "panic")
    /\ pc[c2] = "est_lock"

(* --------------------------------- C22 --------------------------------- *)

\* C22: Serve returns only from an Accept that failed because the listener
\* was closed, and prints nothing for it; for an accept error on the open
\* listener Serve prints the warning and stays in the loop, where it goes on
\* accepting the connections that wait.
C22_ServeErrors ==
  /\ [][ /\ ( servePC = "accept" /\ servePC' = "returned" ) =>
              ( listener = "closed" /\ serveLog' = serveLog )
         /\ serveLog' # serveLog =>
              ( /\ listener = "open"
                /\ serveLog' = Append(serveLog, AcceptWarning)
                /\ servePC' = "accept" /\ listener' = "open" ) ]_vars
  /\ [] ( \A c \in Conns :
            ( serveLog # <<>> /\ listener = "open" /\ ~crashed /\ pc[c] = "backlog" )
              => ENABLED Accept(c) )

\* Serve printed a warning for an accept error, went on, and returned after
\* a kill closed the listener
C22_Witness ==
  /\ serveLog = << AcceptWarning >>
  /\ servePC = "returned"
  /\ KillHandled

(* --------------------------------- C23 --------------------------------- *)

\* C23: a `kill` handled when the listener is closed already changes nothing
\* of the daemon (listener, accept loop, registry, lock, sessions) and writes
\* no error to its connection.
C23_KillIdempotent ==
  [][ \A c \in Conns :
        ( Count(log'[c], "kill") > Count(log[c], "kill") /\ listener = "closed" ) =>
          /\ listener' = "closed"
          /\ servePC' = servePC /\ crashed' = crashed
          /\ tunnels' = tunnels /\ lock' = lock /\ sessions' = sessions
          /\ reply'[c] = <<>> /\ pc'[c] = "done" ]_vars

\* two connections accepted before the first kill have both had their kill
\* handled
C23_Witness ==
  \E c1, c2 \in Conns :
    /\ c1 # c2
    /\ Has(log[c1], "kill") /\ Has(log[c2], "kill")
    /\ listener = "closed" /\ ~crashed

(* --------------------------------- C25 --------------------------------- *)

\* C25: a connection whose command was read is never read again and, once
\* closed, is neither written nor handled again; a connection that has
\* its response and is still open is a `connect` answered `ok`, in its
\* relay; the handler of a relay has not closed the connection, and every
\* handler that ended has closed it as its last act.
C25_OneCommandPerConnection ==
  /\ [][ \A c \in Conns :
           /\ ( Served(c) /\ pc[c] # "read" ) => pc'[c] # "read"
           /\ Finished(c) =>
                ( pc'[c] = pc[c] /\ reply'[c] = reply[c] /\ log'[c] = log[c] ) ]_vars
  /\ [] ( \A c \in Conns :
            /\ ( reply[c] # <<>> /\ ~Finished(c) ) =>
                 ( pc[c] = "relay" /\ reply[c][1] = "ok" /\ IsConnect(c) )
            /\ pc[c] = "relay" => ~Has(log[c], "close")
            /\ Finished(c) =>
                 ( Count(log[c], "close") = 1 /\ log[c][Len(log[c])] = "close" ) )

\* a `ping` was answered and its connection closed while the connection of
\* a relay, answered `ok`, is open
C25_Witness ==
  \E c1, c2 \in Conns :
    /\ pc[c1] = "done" /\ reply[c1] = << "pong " \o ToString(DaemonPid) >>
    /\ pc[c2] = "relay" /\ reply[c2][1] = "ok"

(* --------------------------------- C26 --------------------------------- *)

\* this step is the one in which process p's bind fails
BindFails(p) == np[p] = "listen" /\ np'[p] = "failed"

\* C26 as stated: when the bind fails NewServer makes no Server, leaves the
\* path alone and returns the error of the bind itself.
C26_BindErrorUnmodified ==
  [][ \A p \in Procs :
        BindFails(p) =>
          /\ path' = path
          /\ \E e \in BindErrnos : nerr'[p] = BindError(e) ]_vars

\* C26, amended: when the bind fails NewServer makes no Server, leaves the
\* path alone and returns an error that wraps the error of the bind and whose
\* text is "can't bind: " followed by the text of that error; the process
\* goes on (NewServer returns).
C26_BindErrorWrapped ==
  [][ \A p \in Procs :
        BindFails(p) =>
          /\ path' = path
          /\ \E e \in BindErrnos :
               /\ nerr'[p].msg = "can't bind: " \o BindError(e).msg
               /\ nerr'[p].wraps = e
               /\ (path.kind # "none") = (e = "EADDRINUSE") ]_vars

\* NewServer has returned the error of a failed bind
C26_Witness ==
  \E p \in Procs :
    /\ np[p] = "failed"
    /\ nerr[p].wraps \in BindErrnos

(* --------------------------------- C30 --------------------------------- *)

\* C30: the lock is held only by a handler that is between Lock and its
\* return, and an establish that waits for the lock eventually gets it.
C30_LockReleased ==
  /\ [] ( \A c \in Conns : lock = c => InCritical(c) )
  /\ \A c \in Conns : ( pc[c] = "est_lock" ) ~> ( pc[c] # "est_lock" )

(* --------------------------------- C24 --------------------------------- *)

IsPrefix(a, b) == Len(a) <= Len(b) /\ \A i \in 1..Len(a) : a[i] = b[i]

\* every byte of every stream of every relay
RelayBytes ==
  { ClientByte(c, k) : c \in Conns, k \in 1..StreamLen }
    \cup { DestByte(c, k) : c \in Conns, k \in 1..StreamLen }

\* C24: what has been written to the destination of a relay is a prefix of
\* the stream its client sent after the command line, what has been written
\* to the control connection after `ok` is a prefix of the stream its
\* destination sent, and a connection without a relay carries no byte of any
\* stream.
C24_RelayFIFO ==
  \A c \in Conns :
    /\ IsPrefix(delivered[c], ClientStream(c))
    /\ IF Has(log[c], "ok")
         THEN /\ reply[c][1] = "ok"
              /\ IsPrefix(Tail(reply[c]), DestStream(c))
         ELSE /\ delivered[c] = <<>>
              /\ \A i \in 1..Len(reply[c]) : reply[c][i] \notin RelayBytes

\* two relays have each carried both of their streams to the end
C24_Witness ==
  \E c1, c2 \in Conns :
    /\ c1 # c2
    /\ delivered[c1] = ClientStream(c1) /\ FromDest(c1) = DestStream(c1)
    /\ delivered[c2] = ClientStream(c2) /\ FromDest(c2) = DestStream(c2)

(* --------------------------------- C29 --------------------------------- *)

\* C29: once the client has closed its control connection during a relay,
\* eventually both pumps have finished and the handler has returned and
\* closed the destination connection.
C29_ClientCloseEndsRelay ==
  \A c \in Conns :
    ( pc[c] = "relay" /\ cliClosed[c] )
      ~> ( pc[c] = "done" /\ pumps[c] = {} /\ Has(log[c], "outclose") )

(* --------------------------------- C27 --------------------------------- *)

\* C27: a handler that dialed dialed the address of the request as it is,
\* without a call of the resolver, when its host is an IP literal, and
\* otherwise called the resolver of the tunnel ("LookupHost") and dialed the
\* first address of its answer.
C27_DialedAddress ==
  \A c \in Conns :
    Has(log[c], "dial") =>
      LET addr == Args(c)[2] IN
      IF ParseIP(SplitHostPort(addr).host)
        THEN Has(log[c], "tcp " \o addr) /\ ~Has(log[c], "LookupHost")
        ELSE /\ Has(log[c], "LookupHost")
             /\ \E answer \in LookupAnswers :
                  /\ resolve(answer, addr).err = ""
                  /\ Has(log[c], "tcp " \o resolve(answer, addr).addr)

(* --------------------------------- C28 --------------------------------- *)

\* C28: an entry of the registry stays in it, bound to the same session, in
\* every step.
C28_RegistryEntriesStay ==
  [][ \A k \in DOMAIN tunnels.m :
        MapHas(tunnels', k) /\ tunnels'.m[k] = tunnels.m[k] ]_vars

\* the registry holds a tunnel
C28_Witness == \E k \in Slugs : MapHas(tunnels, k)

(* --------------------------------- C31 --------------------------------- *)

\* C31: while a handler holds Server.lock, every step of a `connect` is
\* free to happen: its command is handled, its dial returns, its pumps run.
C31_ConnectIgnoresLock ==
  \A c \in Conns :
    ( lock # 0 /\ ~crashed /\ IsConnect(c) ) =>
      /\ pc[c] = "read" => ENABLED handle(c)
      /\ pc[c] = "dial" => ENABLED Dial(c)
      /\ pc[c] = "relay" => \A d \in pumps[c] : ENABLED copy(c, d)

\* a `connect` was answered `ok` and relays while an establish, inside a
\* collaborator call, holds the lock
C31_Witness ==
  \E c1, c2 \in Conns :
    /\ lock = c1 /\ pc[c1] = "est_state"
    /\ pc[c2] = "relay" /\ reply[c2] = <<"ok">>

(* --------------------------------- C32 --------------------------------- *)

IsMalformed(c, cmd) ==
  /\ ~input[c].eof
  /\ Args(c)[1] = cmd
  /\ IF cmd = "establish" THEN Len(Args(c)) # 2
                          ELSE Len(Args(c)) < 2 \/ Len(Args(c)) > 3

\* the parts of its work a handler never reaches on a malformed command
WorkEvents ==
  {"dir", "dir_err", "no_org", "check", "state", "state_err", "open",
   "open_err", "insert", "panic", "dial", "dial_err", "ok", "pump"}

\* C32: a malformed `establish` or `connect` never goes beyond the count of
\* its tokens (no directory call, no registry access, no dial, no `ok`); when
\* its handler has ended the connection is closed with one `err` line that
\* names the malformed command; the registry, the listener and the process
\* are as they were.
C32_MalformedCommand ==
  /\ ~crashed /\ listener = "open" /\ tunnels = NewServerTunnels /\ sessions = {}
  /\ \A c \in Conns :
       \A cmd \in {"establish", "connect"} :
         IsMalformed(c, cmd) =>
           /\ pc[c] \in {"backlog", "read", "est_lock", "done"}
           /\ \A i \in 1..Len(log[c]) : log[c][i] \notin WorkEvents
           /\ ~Has(reply[c], "ok")
           /\ pc[c] = "done" =>
                /\ log[c][Len(log[c])] = "close"
                /\ reply[c] =
                     << "err err handling " \o cmd \o ": malformed " \o cmd \o " command"
                        \o ( IF cmd = "connect" THEN ": " \o FormatArgs(Args(c)) ELSE "" ) >>
           /\ pc[c] # "done" => reply[c] = <<>>

\* a `connect` with five tokens and an `establish` with three were refused,
\* in that order
C32_Witness ==
  /\ pc[1] = "done" /\ IsMalformed(1, "connect") /\ Len(Args(1)) = 4
  /\ pc[2] = "done" /\ IsMalformed(2, "establish") /\ Len(Args(2)) = 3

(* --------------------------------- C38 --------------------------------- *)

\* C38: tunnelFor(slug) returns the tunnel stored under slug with no error
\* when the registry has one, and no tunnel with the error `no tunnel for
\* <slug> established` when it has none (the nil map has none); no step of a
\* call changes the registry; a caller holds Server.lock exactly from its
\* Lock to its return, that is for the lookup only.
C38_TunnelForLookup ==
  /\ [] ( \A k \in Callers :
            /\ tf[k].pc = "returned" =>
                 tf[k].res =
                   << IF tf[k].slug \in DOMAIN tunnels.m
                        THEN [tunnel |-> tunnels.m[tf[k].slug], err |-> ""]
                        ELSE [tunnel |-> NilTunnel,
                              err |-> "no tunnel for " \o tf[k].slug
                                        \o " established"] >>
            /\ lock = CallerLock(k) <=> tf[k].pc = "lookup" )
  /\ [][tunnels' = tunnels]_vars

\* one call has returned the stored tunnel of acme, another the error for a
\* slug the registry does not have
C38_Witness ==
  /\ tf[1].pc = "returned" /\ tf[1].slug = "acme"
  /\ tf[1].res = << [tunnel |-> StoredTunnel("acme"), err |-> ""] >>
  /\ tf[2].pc = "returned" /\ tf[2].slug = "ghost"
  /\ tf[2].res[1].err = "no tunnel for ghost established"
  /\ lock = 0

(* --------------------------------- C36 --------------------------------- *)

\* the strategies that return an image or an error
Yielding == { k \in 1..5 : img.kinds[k] # "nothing" }

Least(S) == CHOOSE k \in S : \A j \in S : k <= j

\* C36: Resolve runs the strategies in the order local image, remote image,
\* Dockerfile, buildpacks, builtin; it stops at the first strategy that
\* returns an error or an image and runs none after it; it returns that
\* strategy's error (and no image) if it failed, else its image; when every
\* strategy returns nothing it has run all five and returns no image and no
\* error.
C36_ResolveOrder ==
  /\ img.ran = SubSeq( << "localImageResolver", "remoteImageResolver",
                          "dockerfileStrategy", "buildpacksStrategy",
                          "builtinBuilder" >>, 1, Len(img.ran) )
  /\ Yielding # {} => Len(img.ran) <= Least(Yielding)
  /\ img.ret # <<>> =>
       IF Yielding = {}
         THEN Len(img.ran) = 5 /\ img.ret = << [img |-> "", err |-> ""] >>
         ELSE LET k == Least(Yielding)
              IN  /\ Len(img.ran) = k
                  /\ img.ret =
                       << IF img.kinds[k] \in {"error", "both"}
                            THEN [img |-> "", err |-> img.ran[k] \o " failed"]
                            ELSE [img |-> "image of " \o img.ran[k],
                                  err |-> ""] >>

\* the Dockerfile strategy failed after two strategies found nothing; the
\* later strategies, which would have built an image, were not run
C36_Witness ==
  /\ img.kinds = << "nothing", "nothing", "error", "image", "image" >>
  /\ img.ran = << "localImageResolver", "remoteImageResolver",
                  "dockerfileStrategy" >>
  /\ img.ret = << [img |-> "", err |-> "dockerfileStrategy failed"] >>

(* --------------------------------- C37 --------------------------------- *)

\* a check as the migration is meant to leave it: an integer field becomes
\* the duration of that same field, anything else stays
ConvertedCheck(check) ==
  [k \in DOMAIN check |->
     IF check[k].type = "int64"
       THEN [type |-> "time.Duration", n |-> check[k].n * 1000000, s |-> ""]
       ELSE check[k]]

\* C37: after _patchService has returned without error, the service has
\* the keys it had; the list under `tcp_checks` holds the converted checks
\* of the input's `tcp_checks` and the list under `http_checks` those of
\* the input's `http_checks`; in each check an integer `timeout` has become
\* the duration under `timeout` and `interval` is the value derived from
\* the input's `interval`.
C37_ChecksPatchedIndependently ==
  ( svc.out # <<>> /\ svc.out[1].err = "" ) =>
    LET patched == svc.out[1].service[1]
    IN  /\ DOMAIN patched = DOMAIN svc.in
        /\ \A key \in DOMAIN svc.in :
             /\ Len(patched[key].items) = Len(svc.in[key].items)
             /\ \A i \in 1..Len(svc.in[key].items) :
                  patched[key].items[i] = ConvertedCheck(svc.in[key].items[i])

(* --------------------------------- C33 --------------------------------- *)

\* the places of the trace where a call of kind op (on machine id) was made
Places(op) == { i \in DOMAIN pg.trace : pg.trace[i].op = op }

PlacesOn(op, id) == { i \in Places(op) : pg.trace[i].id = id }

\* C33: in a hard restart on the machines platform no failover is triggered
\* on a cluster of one member and at most one on a larger cluster; every
\* restart of a replica comes before any failover and the restart of the
\* leader after it.
C33_HardRestartFailover ==
  pg.hard =>
    /\ pg.n <= 1 => Places("failover") = {}
    /\ Cardinality(Places("failover")) <= 1
    /\ \A f \in Places("failover") :
         \A r \in Places("restart_vm") :
           IF pg.trace[r].id = pg.leader THEN f < r ELSE r < f

(* --------------------------------- C34 --------------------------------- *)

\* the restarts and failovers of the run, in the order they were made
Work ==
  SelectSeq(pg.trace, LAMBDA e : e.op \in {"restart_pg", "failover"})

\* the members other than the leader in the order of the list, then the
\* failover if there is more than one machine, then the leader
ExpectedWork ==
  [i \in 1..(pg.n - 1) |->
     [op |-> "restart_pg", id |-> IF i < pg.leader THEN i ELSE i + 1]]
  \o ( IF pg.n > 1 THEN << [op |-> "failover", id |-> 0] >> ELSE <<>> )
  \o << [op |-> "restart_pg", id |-> pg.leader] >>

\* C34: restartMachinesPG restarts Postgres on the replicas in the order of
\* the list, then fails over if and only if there is more than one machine,
\* then restarts the leader, last; a step is made only after every earlier
\* step succeeded, a failed step ends the function with an error, and the
\* function returns without error only after the whole sequence succeeded.
C34_RestartOrder ==
  ( pg.pc # "start" /\ ~pg.hard /\ pg.leader # 0 ) =>
    /\ Len(Work) <= Len(ExpectedWork)
    /\ \A i \in 1..Len(Work) :
         /\ Work[i].op = ExpectedWork[i].op
         /\ Work[i].id = ExpectedWork[i].id
         /\ i < Len(Work) => Work[i].ok
    /\ ( Work # <<>> /\ ~Work[Len(Work)].ok ) =>
         ( pg.ret # <<>> /\ pg.ret # << "" >> )
    /\ pg.ret = << "" >> =>
         ( Len(Work) = Len(ExpectedWork) /\ Work[Len(Work)].ok )

\* a cluster of three whose leader is the second machine was restarted:
\* machines 1 and 3, the failover, machine 2
C34_Witness ==
  /\ ~pg.hard /\ pg.n = 3 /\ pg.leader = 2 /\ pg.ret = << "" >>
  /\ Work = << [op |-> "restart_pg", id |-> 1, ok |-> TRUE],
               [op |-> "restart_pg", id |-> 3, ok |-> TRUE],
               [op |-> "failover", id |-> 0, ok |-> TRUE],
               [op |-> "restart_pg", id |-> 2, ok |-> TRUE] >>

(* --------------------------------- C35 --------------------------------- *)

\* the lease on machine m was acquired before place i of the trace
LeasedBefore(m, i) ==
  \E j \in PlacesOn("lease", m) : j < i /\ pg.trace[j].ok

\* C35: in restartMachinesPG every restart and the failover come after a
\* lease was acquired on every machine of the list; when the function has
\* returned, with or without error, every lease that was acquired has been
\* released after it was acquired and none is held.
C35_LeasesAcquiredAndReleased ==
  ( pg.pc # "start" /\ ~pg.hard ) =>
    /\ \A i \in Places("restart_pg") \cup Places("failover") :
         \A m \in 1..pg.n : LeasedBefore(m, i)
    /\ \A m \in pg.held :
         \E j \in PlacesOn("lease", m) : pg.trace[j].ok
    /\ pg.ret # <<>> =>
         /\ pg.held = {}
         /\ \A m \in 1..pg.n :
              \A j \in PlacesOn("lease", m) :
                pg.trace[j].ok => \E r \in PlacesOn("release", m) : j < r

\* the lease on the third machine was refused: the function returned the
\* error after releasing the leases of the second and the first machine
C35_Witness ==
  /\ ~pg.hard /\ pg.n = 3 /\ pg.held = {}
  /\ pg.ret = << "failed to obtain lease: api error" >>
  /\ pg.trace = << [op |-> "lease", id |-> 1, ok |-> TRUE],
                   [op |-> "lease", id |-> 2, ok |-> TRUE],
                   [op |-> "lease", id |-> 3, ok |-> FALSE],
                   [op |-> "release", id |-> 2, ok |-> TRUE],
                   [op |-> "release", id |-> 1, ok |-> TRUE] >>

====
